---- MODULE Spec2Model ----
(***************************************************************************)
(* Streaming session protocol of the custom STT / TTS LiveKit plugins.     *)
(*                                                                         *)
(* STT client : stt-livekit-plugin/.../custom_stt/stt.py  (SpeechStream)   *)
(* STT server : skills-reference/stt-livekit-plugin/stt-api/main.py        *)
(* TTS client : skills-reference/tts-livekit-plugin/.../custom_tts/tts.py  *)
(*                                                                         *)
(* Every asyncio task is a process with a program counter; one action is   *)
(* the code a task runs between two suspension points.  Queues are         *)
(* unbounded asyncio.Queue objects, so put() never suspends.               *)
(***************************************************************************)
EXTENDS Integers, Sequences, FiniteSets, TLC

(* ------------------------------ bounds --------------------------------- *)
\* number of push_frame calls the caller makes
MaxFrames == 3
\* number of end_input calls the caller makes
MaxEndInput == 2
\* number of aclose calls the caller makes
MaxAclose == 2
\* int16 samples carried by one audio frame of a client
FrameSamples == 2
\* bytes carried by one audio frame: 2 bytes per int16 sample
FrameBytes == 2 * FrameSamples
\* half the default sample_rate of a session (scaled down)
HalfSampleRate == 1
\* "sample_rate = config.get("sample_rate", 16000)": the default is even
SampleRate == 2 * HalfSampleRate

\* length of the longest TTS input text
MaxTextLen == 3
\* number of keepalive messages a TTS session sends
MaxKeepalive == 1
\* number of aclose calls on a TTS session
MaxTtsAclose == 2

\* number of messages a foreign peer puts on a connection
MaxPeerMsgs == 3
\* number of messages a foreign client puts on a connection
MaxCliMsgs == 4
\* largest sample_rate a config asks for (scaled down)
MaxSampleRate == 2
\* bytes of the largest binary frame a client sends
MaxFrameSize == 5
\* length of the longest string given to split_into_sentences
MaxSplitLen == 5

\* the end-of-stream sentinel (Python None) on a queue of frame ids 1..n
NoneVal == 0

(* ------------------------------ state ---------------------------------- *)
VARIABLES
    stt_closed,        \* SpeechStream._closed
    stt_audio_queue,   \* SpeechStream._audio_queue (outbound)
    stt_event_queue,   \* SpeechStream._event_queue (inbound)
    stt_ws,            \* SpeechStream._ws is set
    stt_run,           \* position of the _run task
    stt_send_task,     \* position of the _send_loop task
    stt_send_frame,    \* frame held by _send_loop between get and ws.send
    stt_recv_task,     \* position of the _recv_loop task
    stt_cancel,        \* tasks with a pending Task.cancel() request
    stt_put_tasks,     \* frames of the put tasks push_frame created, not yet run
    sock,              \* the WebSocket connection: "none", "up", "closed"
    c2s,               \* messages in flight client -> server
    s2c,               \* messages in flight server -> client
    srv_pc,            \* position of the server's websocket_transcribe handler
    srv_buffer,        \* len(audio_buffer) on the server
    srv_seq,           \* number of segments the server has produced
    srv_close_code,    \* code of the close frame the handler sent, 0 if none
    srv_msg_type,      \* msg_type of the last control message the handler read
    srv_sample_rate,   \* the handler's sample_rate, from the config
    srv_task,          \* the handler's task, from the config
    \* history of the session, read by the properties only
    stt_calls,         \* number of calls the caller made, per method
    stt_accepted,      \* frames push_frame accepted, in call order
    stt_pre_end,       \* frames accepted before the first end_input call
    stt_late,          \* frames accepted after end_input, before any close
    stt_sentinels,     \* sentinels ever enqueued on _audio_queue, per origin
    stt_wire,          \* every message the client wrote to the socket
    stt_send_exit,     \* why _send_loop ended
    stt_terminals,     \* sentinels ever enqueued on _event_queue
    stt_yielded,       \* the event loop has run some task since construction
    stt_last,          \* the caller's last call and the flags before it
    \* ---- TTS session (ChunkedStream and websocket_synthesize) ----
    tts_text,          \* ChunkedStream._text, the input text
    tts_closed,        \* ChunkedStream._closed
    tts_input_ended,   \* ChunkedStream._input_ended
    tts_text_queue,    \* ChunkedStream._text_queue (outbound)
    tts_audio_queue,   \* ChunkedStream._audio_queue (inbound)
    tts_segment_id,    \* ChunkedStream._segment_id
    tts_ws,            \* ChunkedStream._ws is set
    tts_main_task,     \* position of the _run task (_main_task)
    tts_send_task,     \* position of the _send_loop task
    tts_send_item,     \* text held by _send_loop between get and ws.send
    tts_recv_task,     \* position of the _recv_loop task
    tts_keepalive_task, \* position of the _keepalive_loop task
    tts_cancel,        \* tasks with a pending Task.cancel() request
    tts_aclose_pc,     \* position of the caller inside aclose
    tts_sock,          \* the WebSocket connection: "none", "up", "closed"
    tts_c2s,           \* messages in flight client -> server
    tts_s2c,           \* messages in flight server -> client
    tsrv_pc,           \* position of the server's websocket_synthesize handler
    tsrv_buffer,       \* text_buffer on the server
    tsrv_seq,          \* number of audio chunks the server has produced
    tsrv_close_code,   \* code of the close frame the handler sent, 0 if none
    tsrv_msg_type,     \* msg_type of the last text message the handler read
    tsrv_synth,        \* history: the texts passed to synthesize_chunk, in order
    tsrv_received,     \* history: the text fragments the handler read, joined
    \* history of the TTS session, read by the properties only
    tts_calls,         \* number of calls the caller made, per method
    tts_sentinels,     \* sentinels ever enqueued on _text_queue, per origin
    tts_wire,          \* every message the client wrote to the socket
    tts_terminals,     \* sentinels ever enqueued on _audio_queue
    \* ---- the environment of a session ----
    stream_kind,       \* the stream the application created: "stt", "tts", "none"
    env_msgs,          \* messages a foreign peer has put on the connection
    infer_raised,      \* the handler's last step that processed input saw it raise
    srv_impl,          \* the stt-api/main.py that serves /ws/transcribe
    \* ---- one call of split_into_sentences ----
    split_text,        \* the argument
    split_done,        \* the call has returned
    split_result       \* the list it returned

stt_vars == <<stt_closed, stt_audio_queue, stt_event_queue, stt_ws, stt_run,
              stt_send_task, stt_send_frame, stt_recv_task, stt_cancel,
              stt_put_tasks>>
net_vars == <<sock, c2s, s2c>>
srv_vars == <<srv_pc, srv_buffer, srv_seq, srv_close_code, srv_msg_type,
              srv_sample_rate, srv_task>>
hist_vars == <<stt_calls, stt_accepted, stt_pre_end, stt_late, stt_sentinels,
               stt_wire, stt_send_exit, stt_terminals, stt_yielded, stt_last>>
tts_client_vars == <<tts_text, tts_closed, tts_input_ended, tts_text_queue,
                     tts_audio_queue, tts_segment_id, tts_ws, tts_main_task,
                     tts_send_task, tts_send_item, tts_recv_task,
                     tts_keepalive_task, tts_cancel, tts_aclose_pc>>
tts_client_vars_but_aclose ==
    <<tts_text, tts_closed, tts_input_ended, tts_text_queue, tts_audio_queue,
      tts_segment_id, tts_ws, tts_main_task, tts_send_task, tts_send_item,
      tts_recv_task, tts_keepalive_task, tts_cancel>>
tts_net_vars == <<tts_sock, tts_c2s, tts_s2c>>
tsrv_vars ==
    <<tsrv_pc, tsrv_buffer, tsrv_seq, tsrv_close_code, tsrv_msg_type, tsrv_synth,
      tsrv_received>>
tts_hist_vars == <<tts_calls, tts_sentinels, tts_wire, tts_terminals>>
tts_vars == <<tts_client_vars, tts_net_vars, tsrv_vars, tts_hist_vars>>
stt_all_vars == <<stt_vars, net_vars, srv_vars, hist_vars>>
split_vars == <<split_text, split_done, split_result>>
env_vars == <<stream_kind, env_msgs, infer_raised, srv_impl, split_vars>>
vars == <<stt_all_vars, tts_vars, env_vars>>

(* ----------------------------- messages -------------------------------- *)
BytesMsg(f) == [kind |-> "bytes", type |-> "", n |-> f, size |-> FrameBytes]
TextMsg(t) == [kind |-> "text", type |-> t, n |-> 0]
SrvMsg(t, n) == [type |-> t, text |-> n]

\* the "type" of a frame whose payload json.loads rejects
Malformed == "not-json"

\* frames among the messages of a wire log, in order
RECURSIVE FramesOf(_)
FramesOf(log) ==
    IF log = <<>> THEN <<>>
    ELSE IF Head(log).kind = "bytes" THEN <<Head(log).n>> \o FramesOf(Tail(log))
    ELSE FramesOf(Tail(log))

\* number of control messages of type t in a wire log
RECURSIVE CountType(_, _)
CountType(log, t) ==
    IF log = <<>> THEN 0
    ELSE (IF Head(log).kind = "text" /\ Head(log).type = t THEN 1 ELSE 0)
         + CountType(Tail(log), t)

Range(s) == {s[i] : i \in 1..Len(s)}

(* ------------------------------- Init ---------------------------------- *)
SttStart ==
    /\ stt_closed = FALSE
    /\ stt_audio_queue = <<>>
    /\ stt_event_queue = <<>>
    /\ stt_ws = FALSE
    /\ stt_run = "idle"
    /\ stt_send_task = "none"
    /\ stt_send_frame = NoneVal
    /\ stt_recv_task = "none"
    /\ stt_cancel = {}
    /\ stt_put_tasks = <<>>
    /\ sock = "none"
    /\ c2s = <<>>
    /\ s2c = <<>>
    /\ srv_pc = "idle"
    /\ srv_buffer = 0
    /\ srv_seq = 0
    /\ srv_close_code = 0
    /\ srv_msg_type = ""
    /\ srv_sample_rate = 0
    /\ srv_task = ""
    /\ stt_calls = [push |-> 0, end_input |-> 0, aclose |-> 0]
    /\ stt_accepted = <<>>
    /\ stt_pre_end = <<>>
    /\ stt_late = {}
    /\ stt_sentinels = [end_input |-> 0, aclose |-> 0]
    /\ stt_wire = <<>>
    /\ stt_send_exit = "running"
    /\ stt_terminals = 0
    /\ stt_yielded = FALSE
    /\ stt_last = [op |-> "init", closed |-> FALSE, ended |-> FALSE]

(* ------------------------- caller-facing API --------------------------- *)
\* the record of a call: the method and the flags before it
Call(op) == [op |-> op, closed |-> stt_closed, ended |-> stt_calls.end_input > 0]

\* push_frame without its "if self._closed: return"
PushRejected_NoCheck == FALSE

\* push_frame's guard: the frame is dropped when this holds
PushRejected == stt_closed

\* SpeechStream.push_frame: asyncio.create_task(self._audio_queue.put(frame))
push_frame ==
    /\ stream_kind = "stt"
    /\ stt_calls.push < MaxFrames
    /\ LET f == stt_calls.push + 1 IN
       /\ stt_calls' = [stt_calls EXCEPT !.push = f]
       /\ stt_last' = Call("push_frame")
       /\ IF PushRejected
          THEN UNCHANGED <<stt_put_tasks, stt_accepted, stt_late>>
          ELSE /\ stt_put_tasks' = Append(stt_put_tasks, f)
               /\ stt_accepted' = Append(stt_accepted, f)
               /\ stt_late' = IF stt_calls.end_input > 0
                              THEN stt_late \cup {f} ELSE stt_late
    /\ UNCHANGED <<stt_closed, stt_audio_queue, stt_event_queue, stt_ws, stt_run,
                   stt_send_task, stt_send_frame, stt_recv_task, stt_cancel,
                   net_vars, srv_vars, stt_pre_end, stt_sentinels, stt_wire,
                   stt_send_exit, stt_terminals, stt_yielded>>
    /\ UNCHANGED <<tts_vars, env_vars>>

\* the task push_frame created runs: Queue.put(frame) on the unbounded queue
put_task ==
    /\ stt_put_tasks # <<>>
    /\ stt_audio_queue' = Append(stt_audio_queue, Head(stt_put_tasks))
    /\ stt_put_tasks' = Tail(stt_put_tasks)
    /\ stt_yielded' = TRUE
    /\ UNCHANGED <<stt_closed, stt_event_queue, stt_ws, stt_run, stt_send_task,
                   stt_send_frame, stt_recv_task, stt_cancel, net_vars, srv_vars,
                   stt_calls, stt_accepted, stt_pre_end, stt_late, stt_sentinels,
                   stt_wire, stt_send_exit, stt_terminals, stt_last>>
    /\ UNCHANGED <<tts_vars, env_vars>>

\* SpeechStream.end_input: await self._audio_queue.put(None)
end_input ==
    /\ stream_kind = "stt"
    /\ stt_calls.end_input < MaxEndInput
    /\ stt_calls' = [stt_calls EXCEPT !.end_input = @ + 1]
    /\ stt_last' = Call("end_input")
    /\ stt_audio_queue' = Append(stt_audio_queue, NoneVal)
    /\ stt_sentinels' = [stt_sentinels EXCEPT !.end_input = @ + 1]
    /\ stt_pre_end' = IF stt_calls.end_input = 0 THEN stt_accepted ELSE stt_pre_end
    /\ UNCHANGED <<stt_closed, stt_event_queue, stt_ws, stt_run, stt_send_task,
                   stt_send_frame, stt_recv_task, stt_cancel, stt_put_tasks,
                   net_vars, srv_vars, stt_accepted, stt_late, stt_wire,
                   stt_send_exit, stt_terminals, stt_yielded>>
    /\ UNCHANGED <<tts_vars, env_vars>>

\* tasks aclose cancels: those created and not done
Cancellable ==
    (IF stt_send_task \notin {"none", "done"} THEN {"send"} ELSE {})
    \cup (IF stt_recv_task \notin {"none", "done"} THEN {"recv"} ELSE {})

\* aclose: "if self._closed: return"
AcloseReturns_Never == FALSE
AcloseReturns == stt_closed

\* SpeechStream.aclose
aclose ==
    /\ stream_kind = "stt"
    /\ stt_calls.aclose < MaxAclose
    /\ stt_calls' = [stt_calls EXCEPT !.aclose = @ + 1]
    /\ stt_last' = Call("aclose")
    /\ IF AcloseReturns
       THEN UNCHANGED <<stt_closed, stt_audio_queue, stt_sentinels, stt_cancel, sock>>
       ELSE /\ stt_closed' = TRUE
            /\ stt_audio_queue' = Append(stt_audio_queue, NoneVal)
            /\ stt_sentinels' = [stt_sentinels EXCEPT !.aclose = @ + 1]
            /\ stt_cancel' = stt_cancel \cup Cancellable
            /\ sock' = IF stt_ws THEN "closed" ELSE sock
    /\ UNCHANGED <<stt_event_queue, stt_ws, stt_run, stt_send_task, stt_send_frame,
                   stt_recv_task, stt_put_tasks, c2s, s2c, srv_vars, stt_accepted,
                   stt_pre_end, stt_late, stt_wire, stt_send_exit, stt_terminals,
                   stt_yielded>>
    /\ UNCHANGED <<tts_vars, env_vars>>

\* SpeechStream.__anext__ with an item available (a pending get is woken by it)
anext ==
    /\ stt_event_queue # <<>>
    /\ stt_event_queue' = Tail(stt_event_queue)
    /\ stt_yielded' = TRUE
    /\ UNCHANGED <<stt_closed, stt_audio_queue, stt_ws, stt_run, stt_send_task,
                   stt_send_frame, stt_recv_task, stt_cancel, stt_put_tasks,
                   net_vars, srv_vars, stt_calls, stt_accepted, stt_pre_end,
                   stt_late, stt_sentinels, stt_wire, stt_send_exit,
                   stt_terminals, stt_last>>
    /\ UNCHANGED <<tts_vars, env_vars>>

(* ------------------------------ _run ----------------------------------- *)
\* a task has finished, normally or by cancellation
Finished(pc) == pc \in {"done", "cancelled"}

\* _run up to the first recv: connect, set _ws, send the config
\* (on a connection error: except puts the sentinel, finally sets _closed)
run_connect ==
    /\ stream_kind = "stt"
    /\ stt_run = "idle"
    /\ stt_yielded' = TRUE
    /\ \E ok \in BOOLEAN :
         IF ok
         THEN /\ stt_ws' = TRUE
              /\ sock' = "up"
              /\ c2s' = Append(c2s, TextMsg("config"))
              /\ stt_wire' = Append(stt_wire, TextMsg("config"))
              /\ srv_pc' = "accept"
              /\ stt_run' = "ready_wait"
              /\ UNCHANGED <<stt_closed, stt_event_queue, stt_terminals>>
         ELSE /\ stt_event_queue' = Append(stt_event_queue, NoneVal)
              /\ stt_terminals' = stt_terminals + 1
              /\ stt_closed' = TRUE
              /\ stt_run' = "done"
              /\ UNCHANGED <<stt_ws, sock, c2s, stt_wire, srv_pc>>
    /\ UNCHANGED <<stt_audio_queue, stt_send_task, stt_send_frame, stt_recv_task,
                   stt_cancel, stt_put_tasks, s2c, srv_buffer, srv_seq,
                   srv_close_code, srv_msg_type, srv_sample_rate, srv_task, stt_calls,
                   stt_accepted, stt_pre_end, stt_late, stt_sentinels,
                   stt_send_exit, stt_last>>
    /\ UNCHANGED <<tts_vars, env_vars>>

\* a handshake that takes whatever message comes first for the acknowledgement
ReadyAck_AnyMessage(msgs) == msgs # <<>>

\* _run's check of the first message: ready_data.get("type") == "ready"
ReadyAck(msgs) == msgs # <<>> /\ Head(msgs).type = "ready"

\* _run at "ready_msg = await ws.recv()": start the two loops on "ready",
\* otherwise raise (the context manager closes the socket)
run_ready ==
    /\ stt_run = "ready_wait"
    /\ \/ s2c # <<>>
       \/ sock = "closed"
    /\ IF ReadyAck(s2c)
       THEN /\ s2c' = Tail(s2c)
            /\ stt_send_task' = "start"
            /\ stt_recv_task' = "start"
            /\ stt_run' = "gather"
            /\ UNCHANGED <<stt_closed, stt_event_queue, stt_terminals, sock>>
       ELSE /\ s2c' = IF s2c # <<>> THEN Tail(s2c) ELSE s2c
            /\ sock' = "closed"
            /\ stt_event_queue' = Append(stt_event_queue, NoneVal)
            /\ stt_terminals' = stt_terminals + 1
            /\ stt_closed' = TRUE
            /\ stt_run' = "done"
            /\ UNCHANGED <<stt_send_task, stt_recv_task>>
    /\ UNCHANGED <<stt_audio_queue, stt_ws, stt_send_frame, stt_cancel,
                   stt_put_tasks, c2s, srv_vars, stt_calls, stt_accepted,
                   stt_pre_end, stt_late, stt_sentinels, stt_wire, stt_send_exit,
                   stt_yielded, stt_last>>
    /\ UNCHANGED <<tts_vars, env_vars>>

\* a _run whose except clause also catches the CancelledError of gather
run_gather_CatchesCancel ==
    /\ stt_run = "gather"
    /\ \/ Finished(stt_send_task) /\ Finished(stt_recv_task)
       \/ stt_send_task = "cancelled"
       \/ stt_recv_task = "cancelled"
    /\ sock' = "closed"
    /\ stt_closed' = TRUE
    /\ stt_run' = "done"
    /\ IF "cancelled" \in {stt_send_task, stt_recv_task}
       THEN /\ stt_event_queue' = Append(stt_event_queue, NoneVal)
            /\ stt_terminals' = stt_terminals + 1
       ELSE UNCHANGED <<stt_event_queue, stt_terminals>>
    /\ UNCHANGED <<stt_audio_queue, stt_ws, stt_send_task,
                   stt_send_frame, stt_recv_task, stt_cancel, stt_put_tasks,
                   c2s, s2c, srv_vars, stt_calls, stt_accepted, stt_pre_end,
                   stt_late, stt_sentinels, stt_wire, stt_send_exit,
                   stt_yielded, stt_last>>
    /\ UNCHANGED <<tts_vars, env_vars>>

\* _run at "await asyncio.gather(...)": returns when both loops are done, or
\* raises CancelledError as soon as one of them was cancelled (it is no
\* Exception, so the except clause does not run); finally
run_gather ==
    /\ stt_run = "gather"
    /\ \/ Finished(stt_send_task) /\ Finished(stt_recv_task)
       \/ stt_send_task = "cancelled"
       \/ stt_recv_task = "cancelled"
    /\ sock' = "closed"
    /\ stt_closed' = TRUE
    /\ stt_run' = "done"
    /\ UNCHANGED <<stt_audio_queue, stt_event_queue, stt_ws, stt_send_task,
                   stt_send_frame, stt_recv_task, stt_cancel, stt_put_tasks,
                   c2s, s2c, srv_vars, hist_vars>>
    /\ UNCHANGED <<tts_vars, env_vars>>

(* --------------------------- _send_loop -------------------------------- *)
\* a send loop that takes the newest item of the queue instead of the oldest
SendDequeue_Lifo(q) ==
    LET x == q[Len(q)] IN
    IF x = NoneVal
    THEN [pc |-> "done", exit |-> "sentinel", frame |-> NoneVal,
          q |-> SubSeq(q, 1, Len(q) - 1)]
    ELSE [pc |-> "send", exit |-> "running", frame |-> x,
          q |-> SubSeq(q, 1, Len(q) - 1)]

\* what _send_loop does with a dequeued item
SendDequeue(q) ==
    IF Head(q) = NoneVal
    THEN [pc |-> "done", exit |-> "sentinel", frame |-> NoneVal, q |-> Tail(q)]
    ELSE [pc |-> "send", exit |-> "running", frame |-> Head(q), q |-> Tail(q)]

\* the head of the loop: "while not self._closed", then "await queue.get()"
SendLoopHead(isClosed, q) ==
    IF isClosed
    THEN [pc |-> "done", exit |-> "closed", frame |-> NoneVal, q |-> q]
    ELSE IF q = <<>>
         THEN [pc |-> "get", exit |-> "running", frame |-> NoneVal, q |-> q]
         ELSE SendDequeue(q)

SendGoto(r) ==
    /\ stt_send_task' = r.pc
    /\ stt_send_exit' = r.exit
    /\ stt_send_frame' = r.frame
    /\ stt_audio_queue' = r.q

\* the task's first step
send_start ==
    /\ stt_send_task = "start"
    /\ "send" \notin stt_cancel
    /\ SendGoto(SendLoopHead(stt_closed, stt_audio_queue))
    /\ UNCHANGED <<stt_closed, stt_event_queue, stt_ws, stt_run, stt_recv_task,
                   stt_cancel, stt_put_tasks, net_vars, srv_vars, stt_calls,
                   stt_accepted, stt_pre_end, stt_late, stt_sentinels, stt_wire,
                   stt_terminals, stt_yielded, stt_last>>
    /\ UNCHANGED <<tts_vars, env_vars>>

\* the pending "await self._audio_queue.get()" is woken by an item
send_get ==
    /\ stt_send_task = "get"
    /\ "send" \notin stt_cancel
    /\ stt_audio_queue # <<>>
    /\ SendGoto(SendDequeue(stt_audio_queue))
    /\ UNCHANGED <<stt_closed, stt_event_queue, stt_ws, stt_run, stt_recv_task,
                   stt_cancel, stt_put_tasks, net_vars, srv_vars, stt_calls,
                   stt_accepted, stt_pre_end, stt_late, stt_sentinels, stt_wire,
                   stt_terminals, stt_yielded, stt_last>>
    /\ UNCHANGED <<tts_vars, env_vars>>

\* "await self._ws.send(audio_data)", then back to the head of the loop;
\* a closed socket raises, and the except clause ends the loop
send_write ==
    /\ stt_send_task = "send"
    /\ "send" \notin stt_cancel
    /\ IF sock = "up"
       THEN /\ c2s' = Append(c2s, BytesMsg(stt_send_frame))
            /\ stt_wire' = Append(stt_wire, BytesMsg(stt_send_frame))
            /\ SendGoto(SendLoopHead(stt_closed, stt_audio_queue))
       ELSE /\ SendGoto([pc |-> "done", exit |-> "error", frame |-> NoneVal,
                         q |-> stt_audio_queue])
            /\ UNCHANGED <<c2s, stt_wire>>
    /\ UNCHANGED <<stt_closed, stt_event_queue, stt_ws, stt_run, stt_recv_task,
                   stt_cancel, stt_put_tasks, sock, s2c, srv_vars, stt_calls,
                   stt_accepted, stt_pre_end, stt_late, stt_sentinels,
                   stt_terminals, stt_yielded, stt_last>>
    /\ UNCHANGED <<tts_vars, env_vars>>

\* CancelledError is delivered at the task's next resumption (it is not an
\* Exception, so the except clause does not catch it)
send_cancelled ==
    /\ "send" \in stt_cancel
    /\ stt_send_task \in {"start", "get", "send"}
    /\ SendGoto([pc |-> "cancelled", exit |-> "cancelled", frame |-> NoneVal,
                 q |-> stt_audio_queue])
    /\ stt_cancel' = stt_cancel \ {"send"}
    /\ UNCHANGED <<stt_closed, stt_event_queue, stt_ws, stt_run, stt_recv_task,
                   stt_put_tasks, net_vars, srv_vars, stt_calls, stt_accepted,
                   stt_pre_end, stt_late, stt_sentinels, stt_wire, stt_terminals,
                   stt_yielded, stt_last>>
    /\ UNCHANGED <<tts_vars, env_vars>>

(* --------------------------- _recv_loop -------------------------------- *)
\* the finally clause of _recv_loop: "await self._event_queue.put(None)"
RecvFinally(q, pc) ==
    /\ stt_event_queue' = Append(q, NoneVal)
    /\ stt_terminals' = stt_terminals + 1
    /\ stt_recv_task' = pc

\* the loop condition "while not self._closed and self._ws"
RecvLoopHead(q) ==
    IF ~stt_closed /\ stt_ws
    THEN /\ stt_event_queue' = q
         /\ stt_recv_task' = "recv"
         /\ UNCHANGED stt_terminals
    ELSE RecvFinally(q, "done")

\* the task's first step
recv_start ==
    /\ stt_recv_task = "start"
    /\ "recv" \notin stt_cancel
    /\ RecvLoopHead(stt_event_queue)
    /\ UNCHANGED <<stt_closed, stt_audio_queue, stt_ws, stt_run, stt_send_task,
                   stt_send_frame, stt_cancel, stt_put_tasks, net_vars, srv_vars,
                   stt_calls, stt_accepted, stt_pre_end, stt_late, stt_sentinels,
                   stt_wire, stt_send_exit, stt_yielded, stt_last>>
    /\ UNCHANGED <<tts_vars, env_vars>>

\* "message = await self._ws.recv()" returns a message, which is handled
recv_message ==
    /\ stt_recv_task = "recv"
    /\ "recv" \notin stt_cancel
    /\ s2c # <<>>
    /\ s2c' = Tail(s2c)
    /\ LET m == Head(s2c) IN
       CASE m.type = "final" ->
              RecvLoopHead(IF m.text # 0
                           THEN Append(stt_event_queue, m.text)
                           ELSE stt_event_queue)
         [] m.type = "error" -> RecvFinally(stt_event_queue, "done")
         [] m.type = Malformed -> \* json.loads raises: except, then finally
              RecvFinally(stt_event_queue, "done")
         [] OTHER -> RecvLoopHead(stt_event_queue)
    /\ UNCHANGED <<stt_closed, stt_audio_queue, stt_ws, stt_run, stt_send_task,
                   stt_send_frame, stt_cancel, stt_put_tasks, sock, c2s, srv_vars,
                   stt_calls, stt_accepted, stt_pre_end, stt_late, stt_sentinels,
                   stt_wire, stt_send_exit, stt_yielded, stt_last>>
    /\ UNCHANGED <<tts_vars, env_vars>>

\* "await self._ws.recv()" raises ConnectionClosed: except, then finally
recv_closed ==
    /\ stt_recv_task = "recv"
    /\ "recv" \notin stt_cancel
    /\ s2c = <<>>
    /\ sock = "closed"
    /\ RecvFinally(stt_event_queue, "done")
    /\ UNCHANGED <<stt_closed, stt_audio_queue, stt_ws, stt_run, stt_send_task,
                   stt_send_frame, stt_cancel, stt_put_tasks, net_vars, srv_vars,
                   stt_calls, stt_accepted, stt_pre_end, stt_late, stt_sentinels,
                   stt_wire, stt_send_exit, stt_yielded, stt_last>>
    /\ UNCHANGED <<tts_vars, env_vars>>

\* CancelledError at the task's next resumption: inside the try block the
\* finally clause runs; a task cancelled before its first step never enters it
recv_cancelled ==
    /\ "recv" \in stt_cancel
    /\ stt_recv_task \in {"start", "recv"}
    /\ IF stt_recv_task = "recv"
       THEN RecvFinally(stt_event_queue, "cancelled")
       ELSE /\ stt_recv_task' = "cancelled"
            /\ UNCHANGED <<stt_event_queue, stt_terminals>>
    /\ stt_cancel' = stt_cancel \ {"recv"}
    /\ UNCHANGED <<stt_closed, stt_audio_queue, stt_ws, stt_run, stt_send_task,
                   stt_send_frame, stt_put_tasks, net_vars, srv_vars, stt_calls,
                   stt_accepted, stt_pre_end, stt_late, stt_sentinels, stt_wire,
                   stt_send_exit, stt_yielded, stt_last>>
    /\ UNCHANGED <<tts_vars, env_vars>>

(* ------------------------- transport failure --------------------------- *)
\* the connection drops
sock_drop ==
    /\ sock = "up"
    /\ sock' = "closed"
    /\ UNCHANGED <<stt_vars, c2s, s2c, srv_vars, hist_vars>>
    /\ UNCHANGED <<tts_vars, env_vars>>

(* ------------------ STT server: websocket_transcribe ------------------- *)
\* bytes_per_chunk = int(sample_rate * chunk_duration * 2), chunk_duration = 2.0
bytes_per_chunk == srv_sample_rate * 2 * 2
\* overlap_bytes = int(sample_rate * 0.5 * 2)
overlap_bytes == srv_sample_rate

\* results of one model.transcribe call: no segment, a segment with text, a
\* segment whose stripped text is empty, or an exception
Outcomes == {"none", "seg", "empty", "raise"}

\* "model.transcribe(tmp_path, language=language, task=task, ...)": the
\* library rejects a task it does not know with a ValueError
TranscribeOutcomes == IF srv_task = "unsupported" THEN {"raise"} ELSE Outcomes

\* "np.frombuffer(bytes(audio_buffer), dtype=np.int16)": a buffer whose size
\* is not a multiple of the 2-byte element size raises ValueError
Decodable_Truncates(n) == TRUE
Decodable(n) == n % 2 = 0

\* the flush of "end_of_stream": decode what is buffered, then transcribe it
FlushOutcomes ==
    IF Decodable(srv_buffer) THEN TranscribeOutcomes ELSE {"raise"}

\* the "final" messages sent for the segments of one call
Finals(out) ==
    CASE out = "seg" -> <<SrvMsg("final", srv_seq + 1)>>
      [] out = "empty" -> <<SrvMsg("final", 0)>>
      [] OTHER -> <<>>

\* the buffer after a window was processed: audio_buffer[bytes_per_chunk - overlap_bytes:]
DropWindow_NoOverlap(n) == n - bytes_per_chunk
DropWindow(n) ==
    IF n >= bytes_per_chunk - overlap_bytes
    THEN n - (bytes_per_chunk - overlap_bytes) ELSE 0

\* the close code of "websocket.close(code=1000)" and of "websocket.close()"
NormalClosure == 1000

\* the close frame a handler sends: it reaches a connection that is still up
SrvCloses(code) == IF sock = "up" THEN code ELSE srv_close_code

\* "await websocket.accept()", then "if model is None": error, close, return
srv_accept ==
    /\ srv_pc = "accept"
    /\ \E loaded \in BOOLEAN :
         IF loaded
         THEN /\ srv_pc' = "await_config"
              /\ UNCHANGED <<s2c, sock, srv_close_code>>
         ELSE /\ s2c' = IF sock = "up" THEN Append(s2c, SrvMsg("error", 0)) ELSE s2c
              /\ srv_pc' = "done"
              /\ sock' = "closed"
              /\ srv_close_code' = SrvCloses(NormalClosure)
    /\ UNCHANGED <<stt_vars, c2s, srv_buffer, srv_seq, srv_msg_type, srv_sample_rate, srv_task, hist_vars>>
    /\ UNCHANGED <<tts_vars, env_vars>>

\* config.get("sample_rate", 16000) and config.get("task", "transcribe"): the
\* value of the key, or the default
SampleRateOf(m) == IF "sample_rate" \in DOMAIN m THEN m.sample_rate ELSE SampleRate
TaskOf(m) == IF "task" \in DOMAIN m THEN m.task ELSE "transcribe"

\* the first message is usable as a config: receive_text() returns a text
\* frame and json.loads accepts it
ConfigOk_AnyFrame(m) == TRUE
ConfigOk(m) == m.kind = "text" /\ m.type # Malformed

\* "config_msg = await websocket.receive_text()", then the "ready" reply; any
\* exception goes to the outer except (logged) and finally (close(code=1000))
srv_config ==
    /\ srv_pc = "await_config"
    /\ c2s # <<>>
    /\ c2s' = Tail(c2s)
    /\ IF ConfigOk(Head(c2s)) /\ sock = "up"
       THEN /\ s2c' = Append(s2c, SrvMsg("ready", 0))
            /\ srv_pc' = "loop"
            /\ UNCHANGED <<sock, srv_close_code>>
       ELSE /\ srv_pc' = "done"
            /\ sock' = "closed"
            /\ srv_close_code' = SrvCloses(NormalClosure)
            /\ UNCHANGED s2c
    /\ srv_buffer' = 0
    /\ IF ConfigOk(Head(c2s))
       THEN /\ srv_sample_rate' = SampleRateOf(Head(c2s))
            /\ srv_task' = TaskOf(Head(c2s))
       ELSE UNCHANGED <<srv_sample_rate, srv_task>>
    /\ UNCHANGED <<stt_vars, srv_seq, srv_msg_type, hist_vars>>
    /\ UNCHANGED <<tts_vars, env_vars>>

\* keepalive: "continue"
SrvOnKeepalive_ClearsBuffer ==
    /\ srv_buffer' = 0
    /\ UNCHANGED <<s2c, srv_pc, srv_seq, sock, srv_close_code, infer_raised>>
SrvOnKeepalive ==
    UNCHANGED <<s2c, srv_pc, srv_buffer, srv_seq, sock, srv_close_code,
                infer_raised>>

\* unknown msg_type: a warning is logged; not JSON: "continue"
SrvOnOther_Closes ==
    /\ srv_pc' = "done"
    /\ sock' = "closed"
    /\ srv_close_code' = NormalClosure
    /\ UNCHANGED <<s2c, srv_buffer, srv_seq, infer_raised>>
SrvOnOther ==
    UNCHANGED <<s2c, srv_pc, srv_buffer, srv_seq, sock, srv_close_code,
                infer_raised>>

\* one iteration of the receive loop on a text (control) message
SrvOnText(m) ==
    CASE m.type = "end_of_stream" ->
           \E out \in (IF srv_buffer > 0 THEN FlushOutcomes ELSE {"none"}) :
             /\ infer_raised' = IF srv_buffer > 0 THEN out = "raise" ELSE infer_raised
             /\ IF out = "raise" \/ sock # "up"
                THEN \* except Exception: send the error (best effort), loop on
                     /\ s2c' = IF sock = "up"
                               THEN Append(s2c, SrvMsg("error", 0)) ELSE s2c
                     /\ UNCHANGED <<srv_pc, srv_buffer, srv_seq, sock,
                                    srv_close_code>>
                ELSE \* results, session_ended, break, close(code=1000)
                     /\ s2c' = s2c \o Finals(out) \o <<SrvMsg("session_ended", 0)>>
                     /\ srv_seq' = IF out = "seg" THEN srv_seq + 1 ELSE srv_seq
                     /\ srv_pc' = "done"
                     /\ sock' = "closed"
                     /\ srv_close_code' = NormalClosure
                     /\ UNCHANGED srv_buffer
      [] m.type = "keepalive" -> SrvOnKeepalive
      [] OTHER -> SrvOnOther

\* a window whose inference call raised is answered with an "error" message
WindowReply(out) ==
    IF out = "raise" THEN <<SrvMsg("error", 0)>> ELSE Finals(out)

\* one iteration of the receive loop on a binary (audio) message
SrvOnBytes(m) ==
    LET n == srv_buffer + m.size IN
    IF n >= bytes_per_chunk
    THEN \E out \in TranscribeOutcomes :
           /\ infer_raised' = (out = "raise")
           /\ srv_buffer' = DropWindow(n)
           /\ s2c' = IF sock # "up" THEN s2c ELSE s2c \o WindowReply(out)
           /\ srv_seq' = IF out = "seg" /\ sock = "up" THEN srv_seq + 1 ELSE srv_seq
           /\ UNCHANGED <<srv_pc, sock, srv_close_code>>
    ELSE /\ srv_buffer' = n
         /\ UNCHANGED <<s2c, srv_pc, srv_seq, sock, srv_close_code, infer_raised>>

\* "message = await websocket.receive()" returns a message
srv_message ==
    /\ srv_pc = "loop"
    /\ c2s # <<>>
    /\ c2s' = Tail(c2s)
    /\ IF Head(c2s).kind = "text"
       THEN SrvOnText(Head(c2s))
       ELSE SrvOnBytes(Head(c2s))
    /\ srv_msg_type' = IF Head(c2s).kind = "text" /\ Head(c2s).type # Malformed
                       THEN Head(c2s).type ELSE srv_msg_type
    /\ UNCHANGED <<stt_vars, srv_sample_rate, srv_task, hist_vars>>
    /\ UNCHANGED <<tts_vars, stream_kind, srv_impl, split_vars, env_msgs>>

\* the server sees the disconnect.  receive_text() and receive_bytes() raise
\* WebSocketDisconnect, which ends the handler; receive() returns the
\* disconnect message, which has neither "text" nor "bytes": a warning is
\* logged and the loop goes on
srv_disconnect ==
    /\ srv_pc \in {"await_config", "loop"}
    /\ c2s = <<>>
    /\ sock = "closed"
    /\ srv_pc' = IF srv_pc = "loop" /\ srv_impl = "reference"
                 THEN "disconnected" ELSE "done"
    /\ UNCHANGED <<stt_vars, net_vars, srv_buffer, srv_seq, srv_close_code,
                   srv_msg_type, srv_sample_rate, srv_task, hist_vars>>
    /\ UNCHANGED <<tts_vars, env_vars>>

\* receive() after the disconnect message raises RuntimeError: except
\* Exception, the "error" cannot be sent, and the loop goes on
srv_receive_raises ==
    /\ srv_pc = "disconnected"
    /\ UNCHANGED vars

(* ------- STT server of src/stt-livekit-plugin: websocket_transcribe ----- *)
\* The handler of src/stt-livekit-plugin/stt-api/main.py has the same accept
\* and configuration steps; its loop reads with receive_bytes().

\* the two stt-api/main.py of the repository
SttImpls == {"reference", "original"}

\* "except Exception" of the loop: send_json(error) is not guarded, so on a
\* connection that is down it raises into the outer except and finally
OrigSrvOnError ==
    IF sock = "up"
    THEN /\ s2c' = Append(s2c, SrvMsg("error", 0))
         /\ UNCHANGED <<srv_pc, sock, srv_close_code>>
    ELSE /\ srv_pc' = "done"
         /\ sock' = "closed"
         /\ srv_close_code' = SrvCloses(NormalClosure)
         /\ UNCHANGED s2c

\* receive_bytes() on a text frame: the message has no bytes, the read or the
\* extend raises
OrigSrvOnText(m) ==
    /\ OrigSrvOnError
    /\ UNCHANGED <<srv_buffer, srv_seq, infer_raised>>

\* receive_bytes() on a binary frame: extend, and a window when there is one;
\* the buffer is cut after the try/finally, so only when nothing raised
OrigSrvOnBytes(m) ==
    LET n == srv_buffer + m.size IN
    IF n >= bytes_per_chunk
    THEN \E out \in TranscribeOutcomes :
           /\ infer_raised' = (out = "raise")
           /\ IF out = "raise" \/ (Finals(out) # <<>> /\ sock # "up")
              THEN /\ srv_buffer' = n
                   /\ OrigSrvOnError
                   /\ UNCHANGED srv_seq
              ELSE /\ srv_buffer' = DropWindow(n)
                   /\ s2c' = s2c \o Finals(out)
                   /\ srv_seq' = IF out = "seg" THEN srv_seq + 1 ELSE srv_seq
                   /\ UNCHANGED <<srv_pc, sock, srv_close_code>>
    ELSE /\ srv_buffer' = n
         /\ UNCHANGED <<s2c, srv_pc, srv_seq, sock, srv_close_code, infer_raised>>

\* "data = await websocket.receive_bytes()" returns or raises on a message
orig_srv_message ==
    /\ srv_impl = "original"
    /\ srv_pc = "loop"
    /\ c2s # <<>>
    /\ c2s' = Tail(c2s)
    /\ IF Head(c2s).kind = "text"
       THEN OrigSrvOnText(Head(c2s))
       ELSE OrigSrvOnBytes(Head(c2s))
    /\ UNCHANGED <<stt_vars, srv_msg_type, srv_sample_rate, srv_task, hist_vars>>
    /\ UNCHANGED <<tts_vars, stream_kind, srv_impl, split_vars, env_msgs>>

(* --------------------------- specification ----------------------------- *)
NextSTT ==
    \/ push_frame
    \/ put_task
    \/ end_input
    \/ aclose
    \/ anext
    \/ run_connect
    \/ run_ready
    \/ run_gather
    \/ send_start
    \/ send_get
    \/ send_write
    \/ send_cancelled
    \/ recv_start
    \/ recv_message
    \/ recv_closed
    \/ recv_cancelled
    \/ sock_drop
    \/ srv_accept
    \/ srv_config
    \/ srv_message
    \/ srv_disconnect

(* ------------------------- properties: STT ----------------------------- *)
IsPrefix(s, t) == Len(s) <= Len(t) /\ s = SubSeq(t, 1, Len(s))

\* all sentinels ever enqueued on the outbound queue
SttSentinels == stt_sentinels.end_input + stt_sentinels.aclose

\* C1: however many times end_input is called on a session (N >= 1, no
\* close), exactly one end-of-stream sentinel is ever enqueued on the
\* outbound audio queue.
C1_SingleSentinel ==
    (stt_calls.end_input >= 1 /\ stt_calls.aclose = 0) => SttSentinels = 1

\* C2: aclose enqueues a sentinel only when input has not already ended: an
\* aclose that closes a stream whose end_input already ran adds none.
C2_AcloseAddsNoSentinel ==
    (stt_last.op = "aclose" /\ stt_last.ended /\ ~stt_last.closed)
        => stt_sentinels.aclose = 0

\* C4: once aclose has been called, a push_frame call leaves the outbound
\* queue (and the puts scheduled onto it) exactly as it was.
C4_PushAfterCloseNoop ==
    [][(stt_calls.aclose > 0 /\ stt_calls'.push = stt_calls.push + 1)
         => (stt_audio_queue' = stt_audio_queue /\ stt_put_tasks' = stt_put_tasks
             /\ stt_accepted' = stt_accepted)]_vars

\* C4 witness: push_frame was called after aclose, and the frame was dropped
C4_Witness ==
    /\ stt_last.op = "push_frame"
    /\ stt_calls.aclose > 0
    /\ stt_last.closed
    /\ stt_calls.push > Len(stt_accepted)

\* C5: a frame pushed after end_input (before any close) is rejected: it
\* never reaches the outbound queue and is never written to the wire.
C5_PushAfterEndRejected ==
    \A f \in stt_late :
        f \notin Range(stt_audio_queue) \cup Range(FramesOf(stt_wire))

\* C6: on an open stream whose input has not ended, with no suspension since
\* construction, the outbound queue holds one frame per push_frame call.
C6_PushEnqueuesOnReturn ==
    (~stt_yielded /\ ~stt_closed /\ stt_calls.end_input = 0 /\ stt_calls.aclose = 0)
        => Len(stt_audio_queue) = stt_calls.push

\* C7: the frames written to the wire are the frames accepted by push_frame,
\* in the order pushed: nothing duplicated, nothing reordered.
C7_WireOrder == IsPrefix(FramesOf(stt_wire), stt_accepted)

\* C7 witness: several frames went over the wire
C7_Witness == Len(FramesOf(stt_wire)) >= 2 /\ Len(stt_accepted) >= 3

\* C8: when the send loop has consumed the sentinel and stopped, every frame
\* pushed before end_input has been written to the wire.
C8_NoDiscardOnEnd ==
    (stt_send_exit = "sentinel" /\ stt_calls.aclose = 0)
        => Range(stt_pre_end) \subseteq Range(FramesOf(stt_wire))

\* C9: a send loop that dequeued the sentinel has written exactly one
\* end_of_stream control message to the wire.
C9_EndOfStreamWritten ==
    (stt_send_exit = "sentinel" /\ sock = "up")
        => CountType(stt_wire, "end_of_stream") = 1

\* C10: end_input never leaves the client and a protocol-following server
\* waiting for each other on a live socket: the send loop gone, the receive
\* loop blocked on an empty socket, the server blocked on an empty socket, and
\* no terminal sentinel on the inbound queue.
C10_NoDeadlock ==
    ~ ( /\ stt_calls.end_input >= 1
        /\ stt_calls.aclose = 0
        /\ sock = "up"
        /\ stt_send_exit = "sentinel"
        /\ stt_recv_task = "recv"
        /\ stt_put_tasks = <<>>
        /\ c2s = <<>>
        /\ s2c = <<>>
        /\ srv_pc = "loop"
        /\ stt_terminals = 0 )

(* ======================= TTS: ChunkedStream ============================ *)
\* characters of a text: a letter, a sentence terminator, a whitespace
Chars == {"a", ".", " "}
Texts == UNION {[1..n -> Chars] : n \in 0..MaxTextLen}

\* the sentinel (None) on the inbound queue of segment ids 0, 1, ...
TtsNone == -1

TtsMsg(t, x) == [type |-> t, text |-> x]
TsrvMsg(t, k) == [type |-> t, n |-> k]

\* number of messages of type t in a TTS wire log
RECURSIVE TtsCount(_, _)
TtsCount(log, t) ==
    IF log = <<>> THEN 0
    ELSE (IF Head(log).type = t THEN 1 ELSE 0) + TtsCount(Tail(log), t)

TtsStart(text) ==
    /\ tts_text = text
    /\ tts_closed = FALSE
    /\ tts_input_ended = FALSE
    /\ tts_text_queue = <<>>
    /\ tts_audio_queue = <<>>
    /\ tts_segment_id = 0
    /\ tts_ws = FALSE
    /\ tts_main_task = "none"
    /\ tts_send_task = "none"
    /\ tts_send_item = "none"
    /\ tts_recv_task = "none"
    /\ tts_keepalive_task = "none"
    /\ tts_cancel = {}
    /\ tts_aclose_pc = "idle"
    /\ tts_sock = "none"
    /\ tts_c2s = <<>>
    /\ tts_s2c = <<>>
    /\ tsrv_pc = "idle"
    /\ tsrv_buffer = <<>>
    /\ tsrv_seq = 0
    /\ tsrv_close_code = 0
    /\ tsrv_msg_type = ""
    /\ tsrv_synth = <<>>
    /\ tsrv_received = <<>>
    /\ tts_calls = [anext |-> 0, aclose |-> 0]
    /\ tts_sentinels = [run |-> 0, aclose |-> 0]
    /\ tts_wire = <<>>
    /\ tts_terminals = 0

\* no call of split_into_sentences has returned
SplitStart(text) ==
    /\ split_text = text
    /\ split_done = FALSE
    /\ split_result = <<>>

\* the application has created one stream of the given kind
EnvStart(kind) ==
    /\ stream_kind = kind
    /\ env_msgs = 0
    /\ infer_raised = FALSE
    /\ srv_impl = "reference"
    /\ SplitStart(<<>>)

InitSTT == SttStart /\ TtsStart(<<>>) /\ EnvStart("stt")

InitTTS == SttStart /\ EnvStart("tts") /\ \E text \in Texts : TtsStart(text)

\* __anext__: "if self._main_task is None", the task is created
TtsStartsRun_Always == TRUE
TtsStartsRun == tts_main_task = "none"

(* ------------------------- caller-facing API --------------------------- *)
\* ChunkedStream.__anext__: the first pull creates the _run task; a pull
\* returns (or raises StopAsyncIteration) once the inbound queue has an item
tts_anext ==
    /\ stream_kind = "tts"
    /\ TtsStartsRun \/ tts_audio_queue # <<>>
    /\ tts_calls' = [tts_calls EXCEPT !.anext = IF @ < 2 THEN @ + 1 ELSE @]
    /\ tts_main_task' = IF TtsStartsRun THEN "start" ELSE tts_main_task
    /\ tts_audio_queue' = IF tts_audio_queue # <<>>
                          THEN Tail(tts_audio_queue) ELSE tts_audio_queue
    /\ UNCHANGED <<tts_text, tts_closed, tts_input_ended, tts_text_queue,
                   tts_segment_id, tts_ws, tts_send_task, tts_send_item,
                   tts_recv_task, tts_keepalive_task, tts_cancel, tts_aclose_pc,
                   tts_net_vars, tsrv_vars, tts_sentinels, tts_wire, tts_terminals>>
    /\ UNCHANGED <<stt_all_vars, env_vars>>

TtsFinished(pc) == pc \in {"done", "cancelled"}

\* aclose's "if not self._input_ended": the sentinel is enqueued when this holds
TtsAcloseEnqueues == ~tts_input_ended

\* tasks_to_cancel: the tasks that exist and are not done
TtsToCancel ==
    (IF tts_main_task \notin {"none", "done", "cancelled"} THEN {"main"} ELSE {})
    \cup (IF tts_send_task \notin {"none", "done", "cancelled"} THEN {"send"} ELSE {})
    \cup (IF tts_recv_task \notin {"none", "done", "cancelled"} THEN {"recv"} ELSE {})
    \cup (IF tts_keepalive_task \notin {"none", "done", "cancelled"}
          THEN {"keepalive"} ELSE {})

\* the final "if self._ws and not self._ws.closed: await self._ws.close(code=1000)"
TtsAcloseSocket == IF tts_ws /\ tts_sock = "up" THEN "closed" ELSE tts_sock

\* ChunkedStream.aclose up to its first wait: the _closed guard, the flags,
\* "await asyncio.wait_for(self._text_queue.put(None), timeout=1.0)" (the put
\* on the unbounded queue completes at once), task.cancel() for every task to
\* cancel; with no task to cancel, the socket is closed and aclose returns
tts_aclose ==
    /\ stream_kind = "tts"
    /\ tts_aclose_pc = "idle"
    /\ tts_calls.aclose < MaxTtsAclose
    /\ tts_calls' = [tts_calls EXCEPT !.aclose = @ + 1]
    /\ IF tts_closed
       THEN UNCHANGED <<tts_closed, tts_input_ended, tts_text_queue,
                        tts_sentinels, tts_aclose_pc, tts_cancel, tts_sock>>
       ELSE /\ tts_closed' = TRUE
            /\ IF TtsAcloseEnqueues
               THEN /\ tts_input_ended' = TRUE
                    /\ tts_text_queue' = Append(tts_text_queue, "None")
                    /\ tts_sentinels' = [tts_sentinels EXCEPT !.aclose = @ + 1]
               ELSE UNCHANGED <<tts_input_ended, tts_text_queue, tts_sentinels>>
            /\ tts_cancel' = tts_cancel \cup TtsToCancel
            /\ IF TtsToCancel = {}
               THEN /\ tts_aclose_pc' = "idle"
                    /\ tts_sock' = TtsAcloseSocket
               ELSE /\ tts_aclose_pc' = "wait"
                    /\ UNCHANGED tts_sock
    /\ UNCHANGED <<tts_text, tts_audio_queue, tts_segment_id, tts_ws,
                   tts_main_task, tts_send_task, tts_send_item, tts_recv_task,
                   tts_keepalive_task, tts_c2s, tts_s2c, tsrv_vars, tts_wire,
                   tts_terminals>>
    /\ UNCHANGED <<stt_all_vars, env_vars>>

\* aclose: "await asyncio.gather(*tasks_to_cancel, return_exceptions=True)"
\* returns once every cancelled task has finished; then the socket is closed
tts_aclose_finish ==
    /\ tts_aclose_pc = "wait"
    /\ tts_cancel = {}
    /\ tts_aclose_pc' = "idle"
    /\ tts_sock' = TtsAcloseSocket
    /\ UNCHANGED <<tts_client_vars_but_aclose, tts_c2s, tts_s2c, tsrv_vars,
                   tts_hist_vars>>
    /\ UNCHANGED <<stt_all_vars, env_vars>>

(* ------------------------------ _run ----------------------------------- *)
\* _run up to the first recv: connect, set _ws, send the config
tts_run_connect ==
    /\ tts_main_task = "start"
    /\ "main" \notin tts_cancel
    /\ \E ok \in BOOLEAN :
         IF ok
         THEN /\ tts_ws' = TRUE
              /\ tts_sock' = "up"
              /\ tts_c2s' = Append(tts_c2s, TtsMsg("config", <<>>))
              /\ tts_wire' = Append(tts_wire, TtsMsg("config", <<>>))
              /\ tsrv_pc' = "accept"
              /\ tts_main_task' = "ready_wait"
              /\ UNCHANGED <<tts_closed, tts_audio_queue, tts_terminals>>
         ELSE /\ tts_audio_queue' = Append(tts_audio_queue, TtsNone)
              /\ tts_terminals' = tts_terminals + 1
              /\ tts_closed' = TRUE
              /\ tts_main_task' = "done"
              /\ UNCHANGED <<tts_ws, tts_sock, tts_c2s, tts_wire, tsrv_pc>>
    /\ UNCHANGED <<tts_text, tts_input_ended, tts_text_queue, tts_segment_id,
                   tts_send_task, tts_send_item, tts_recv_task,
                   tts_keepalive_task, tts_cancel, tts_aclose_pc, tts_s2c,
                   tsrv_buffer, tsrv_seq, tsrv_close_code, tsrv_msg_type, tsrv_synth, tsrv_received,
                   tts_calls,
                   tts_sentinels>>
    /\ UNCHANGED <<stt_all_vars, env_vars>>

\* what _run puts on the text queue after starting the tasks:
\* "await self._text_queue.put(self._text)", "await self._text_queue.put(None)"
TtsRunPuts == <<"text", "None">>

\* _run at "ready_msg = await ws.recv()": on "ready" the three tasks are
\* created and the text and the sentinel are queued; otherwise it raises
tts_run_ready ==
    /\ tts_main_task = "ready_wait"
    /\ "main" \notin tts_cancel
    /\ \/ tts_s2c # <<>>
       \/ tts_sock = "closed"
    /\ IF ReadyAck(tts_s2c)
       THEN /\ tts_s2c' = Tail(tts_s2c)
            /\ tts_send_task' = "start"
            /\ tts_recv_task' = "start"
            /\ tts_keepalive_task' = "start"
            /\ tts_text_queue' = tts_text_queue \o TtsRunPuts
            /\ tts_sentinels' = [tts_sentinels EXCEPT !.run = @ + 1]
            /\ tts_main_task' = "gather"
            /\ UNCHANGED <<tts_closed, tts_audio_queue, tts_terminals, tts_sock>>
       ELSE /\ tts_s2c' = IF tts_s2c # <<>> THEN Tail(tts_s2c) ELSE tts_s2c
            /\ tts_sock' = "closed"
            /\ tts_audio_queue' = Append(tts_audio_queue, TtsNone)
            /\ tts_terminals' = tts_terminals + 1
            /\ tts_closed' = TRUE
            /\ tts_main_task' = "done"
            /\ UNCHANGED <<tts_send_task, tts_recv_task, tts_keepalive_task,
                           tts_text_queue, tts_sentinels>>
    /\ UNCHANGED <<tts_text, tts_input_ended, tts_segment_id, tts_ws,
                   tts_send_item, tts_cancel, tts_aclose_pc, tts_c2s, tsrv_vars,
                   tts_calls, tts_wire>>
    /\ UNCHANGED <<stt_all_vars, env_vars>>

\* _run at "await asyncio.gather(...)": returns when the three tasks are done,
\* or raises CancelledError as soon as one was cancelled; the context manager
\* closes the socket and finally sets _closed
tts_run_gather ==
    /\ tts_main_task = "gather"
    /\ "main" \notin tts_cancel
    /\ \/ /\ TtsFinished(tts_send_task)
          /\ TtsFinished(tts_recv_task)
          /\ TtsFinished(tts_keepalive_task)
       \/ "cancelled" \in {tts_send_task, tts_recv_task, tts_keepalive_task}
    /\ tts_sock' = "closed"
    /\ tts_closed' = TRUE
    /\ tts_main_task' = "done"
    /\ UNCHANGED <<tts_text, tts_input_ended, tts_text_queue, tts_audio_queue,
                   tts_segment_id, tts_ws, tts_send_task, tts_send_item,
                   tts_recv_task, tts_keepalive_task, tts_cancel, tts_aclose_pc,
                   tts_c2s, tts_s2c, tsrv_vars, tts_hist_vars>>
    /\ UNCHANGED <<stt_all_vars, env_vars>>

\* CancelledError in _run: a task cancelled before its first step runs nothing;
\* otherwise the context manager closes the socket, finally sets _closed, and
\* a cancelled gather cancels its children
tts_run_cancelled ==
    /\ "main" \in tts_cancel
    /\ tts_main_task \in {"start", "ready_wait", "gather"}
    /\ tts_main_task' = "cancelled"
    /\ IF tts_main_task = "start"
       THEN /\ tts_cancel' = tts_cancel \ {"main"}
            /\ UNCHANGED <<tts_sock, tts_closed>>
       ELSE /\ tts_cancel' = (tts_cancel \ {"main"})
                             \cup (IF tts_main_task = "gather"
                                   THEN TtsToCancel \ {"main"} ELSE {})
            /\ tts_sock' = "closed"
            /\ tts_closed' = TRUE
    /\ UNCHANGED <<tts_text, tts_input_ended, tts_text_queue, tts_audio_queue,
                   tts_segment_id, tts_ws, tts_send_task, tts_send_item,
                   tts_recv_task, tts_keepalive_task, tts_aclose_pc, tts_c2s,
                   tts_s2c, tsrv_vars, tts_hist_vars>>
    /\ UNCHANGED <<stt_all_vars, env_vars>>

(* --------------------------- _send_loop -------------------------------- *)
\* the head of the loop: "while not self._closed", then "await queue.get()"
\* (_run queues the text and the sentinel in the step that creates the task,
\* so the loop never finds the queue empty before it has taken a sentinel)
TtsSendLoopHead(q) ==
    IF tts_closed
    THEN [pc |-> "done", item |-> "none", q |-> q]
    ELSE IF q = <<>>
         THEN [pc |-> "get", item |-> "none", q |-> q]
         ELSE [pc |-> "send", item |-> Head(q), q |-> Tail(q)]

TtsSendGoto(r) ==
    /\ tts_send_task' = r.pc
    /\ tts_send_item' = r.item
    /\ tts_text_queue' = r.q

\* the task's first step
tts_send_start ==
    /\ tts_send_task = "start"
    /\ "send" \notin tts_cancel
    /\ TtsSendGoto(TtsSendLoopHead(tts_text_queue))
    /\ UNCHANGED <<tts_text, tts_closed, tts_input_ended, tts_audio_queue,
                   tts_segment_id, tts_ws, tts_main_task, tts_recv_task,
                   tts_keepalive_task, tts_cancel, tts_aclose_pc, tts_net_vars,
                   tsrv_vars, tts_hist_vars>>
    /\ UNCHANGED <<stt_all_vars, env_vars>>

\* the message _send_loop writes for a dequeued item
TtsSendMessage(item) ==
    IF item = "None" THEN TtsMsg("end_of_stream", <<>>) ELSE TtsMsg("text", tts_text)

\* the dequeued item is handled: the sentinel sends end_of_stream and breaks,
\* a text is sent and the loop goes on; nothing is written on a closed socket
tts_send_write ==
    /\ tts_send_task = "send"
    /\ "send" \notin tts_cancel
    /\ IF tts_ws /\ tts_sock = "up"
       THEN /\ tts_c2s' = Append(tts_c2s, TtsSendMessage(tts_send_item))
            /\ tts_wire' = Append(tts_wire, TtsSendMessage(tts_send_item))
       ELSE UNCHANGED <<tts_c2s, tts_wire>>
    /\ IF tts_send_item = "None"
       THEN TtsSendGoto([pc |-> "done", item |-> "none", q |-> tts_text_queue])
       ELSE TtsSendGoto(TtsSendLoopHead(tts_text_queue))
    /\ UNCHANGED <<tts_text, tts_closed, tts_input_ended, tts_audio_queue,
                   tts_segment_id, tts_ws, tts_main_task, tts_recv_task,
                   tts_keepalive_task, tts_cancel, tts_aclose_pc, tts_sock,
                   tts_s2c, tsrv_vars, tts_calls, tts_sentinels, tts_terminals>>
    /\ UNCHANGED <<stt_all_vars, env_vars>>

\* "except asyncio.CancelledError: raise"
tts_send_cancelled ==
    /\ "send" \in tts_cancel
    /\ tts_send_task \in {"start", "get", "send"}
    /\ TtsSendGoto([pc |-> "cancelled", item |-> "none", q |-> tts_text_queue])
    /\ tts_cancel' = tts_cancel \ {"send"}
    /\ UNCHANGED <<tts_text, tts_closed, tts_input_ended, tts_audio_queue,
                   tts_segment_id, tts_ws, tts_main_task, tts_recv_task,
                   tts_keepalive_task, tts_aclose_pc, tts_net_vars, tsrv_vars,
                   tts_hist_vars>>
    /\ UNCHANGED <<stt_all_vars, env_vars>>

(* --------------------------- _recv_loop -------------------------------- *)
\* the finally clause of _recv_loop: "await self._audio_queue.put(None)"
TtsRecvFinally(q, pc) ==
    /\ tts_audio_queue' = Append(q, TtsNone)
    /\ tts_terminals' = tts_terminals + 1
    /\ tts_recv_task' = pc

\* the loop condition "while not self._closed and self._ws"
TtsRecvLoopHead(q) ==
    IF ~tts_closed /\ tts_ws
    THEN /\ tts_audio_queue' = q
         /\ tts_recv_task' = "recv"
         /\ UNCHANGED tts_terminals
    ELSE TtsRecvFinally(q, "done")

\* the task's first step
tts_recv_start ==
    /\ tts_recv_task = "start"
    /\ "recv" \notin tts_cancel
    /\ TtsRecvLoopHead(tts_audio_queue)
    /\ UNCHANGED <<tts_text, tts_closed, tts_input_ended, tts_text_queue,
                   tts_segment_id, tts_ws, tts_main_task, tts_send_task,
                   tts_send_item, tts_keepalive_task, tts_cancel, tts_aclose_pc,
                   tts_net_vars, tsrv_vars, tts_calls, tts_sentinels, tts_wire>>
    /\ UNCHANGED <<stt_all_vars, env_vars>>

\* "message = await self._ws.recv()" returns a message, which is handled
tts_recv_message ==
    /\ tts_recv_task = "recv"
    /\ "recv" \notin tts_cancel
    /\ tts_s2c # <<>>
    /\ tts_s2c' = Tail(tts_s2c)
    /\ LET m == Head(tts_s2c) IN
       CASE m.type = "audio" ->
              /\ TtsRecvLoopHead(Append(tts_audio_queue, tts_segment_id))
              /\ tts_segment_id' = tts_segment_id + 1
         [] m.type \in {"complete", "error"} ->
              /\ TtsRecvFinally(tts_audio_queue, "done")
              /\ UNCHANGED tts_segment_id
         [] OTHER ->
              /\ TtsRecvLoopHead(tts_audio_queue)
              /\ UNCHANGED tts_segment_id
    /\ UNCHANGED <<tts_text, tts_closed, tts_input_ended, tts_text_queue, tts_ws,
                   tts_main_task, tts_send_task, tts_send_item,
                   tts_keepalive_task, tts_cancel, tts_aclose_pc, tts_sock,
                   tts_c2s, tsrv_vars, tts_calls, tts_sentinels, tts_wire>>
    /\ UNCHANGED <<stt_all_vars, env_vars>>

\* "await self._ws.recv()" raises ConnectionClosed: except, then finally
tts_recv_closed ==
    /\ tts_recv_task = "recv"
    /\ "recv" \notin tts_cancel
    /\ tts_s2c = <<>>
    /\ tts_sock = "closed"
    /\ TtsRecvFinally(tts_audio_queue, "done")
    /\ UNCHANGED <<tts_text, tts_closed, tts_input_ended, tts_text_queue,
                   tts_segment_id, tts_ws, tts_main_task, tts_send_task,
                   tts_send_item, tts_keepalive_task, tts_cancel, tts_aclose_pc,
                   tts_net_vars, tsrv_vars, tts_calls, tts_sentinels, tts_wire>>
    /\ UNCHANGED <<stt_all_vars, env_vars>>

\* "except asyncio.CancelledError: raise", through the finally clause; a task
\* cancelled before its first step never enters the try block
tts_recv_cancelled ==
    /\ "recv" \in tts_cancel
    /\ tts_recv_task \in {"start", "recv"}
    /\ IF tts_recv_task = "recv"
       THEN TtsRecvFinally(tts_audio_queue, "cancelled")
       ELSE /\ tts_recv_task' = "cancelled"
            /\ UNCHANGED <<tts_audio_queue, tts_terminals>>
    /\ tts_cancel' = tts_cancel \ {"recv"}
    /\ UNCHANGED <<tts_text, tts_closed, tts_input_ended, tts_text_queue,
                   tts_segment_id, tts_ws, tts_main_task, tts_send_task,
                   tts_send_item, tts_keepalive_task, tts_aclose_pc,
                   tts_net_vars, tsrv_vars, tts_calls, tts_sentinels, tts_wire>>
    /\ UNCHANGED <<stt_all_vars, env_vars>>

(* ------------------------- _keepalive_loop ----------------------------- *)
\* the loop condition "while not self._closed and self._ws"
TtsKeepaliveHead == IF ~tts_closed /\ tts_ws THEN "sleep" ELSE "done"

\* the condition under which a keepalive message is sent after the sleep
TtsKeepaliveDue == tts_ws /\ tts_sock = "up" /\ ~tts_input_ended

\* the task's first step
tts_keepalive_start ==
    /\ tts_keepalive_task = "start"
    /\ "keepalive" \notin tts_cancel
    /\ tts_keepalive_task' = TtsKeepaliveHead
    /\ UNCHANGED <<tts_text, tts_closed, tts_input_ended, tts_text_queue,
                   tts_audio_queue, tts_segment_id, tts_ws, tts_main_task,
                   tts_send_task, tts_send_item, tts_recv_task, tts_cancel,
                   tts_aclose_pc, tts_net_vars, tsrv_vars, tts_hist_vars>>
    /\ UNCHANGED <<stt_all_vars, env_vars>>

\* "await asyncio.sleep(5.0)" is over: send a keepalive if due, loop
tts_keepalive_tick ==
    /\ tts_keepalive_task = "sleep"
    /\ "keepalive" \notin tts_cancel
    /\ IF TtsKeepaliveDue
       THEN /\ TtsCount(tts_wire, "keepalive") < MaxKeepalive
            /\ tts_c2s' = Append(tts_c2s, TtsMsg("keepalive", <<>>))
            /\ tts_wire' = Append(tts_wire, TtsMsg("keepalive", <<>>))
       ELSE UNCHANGED <<tts_c2s, tts_wire>>
    /\ tts_keepalive_task' = TtsKeepaliveHead
    /\ UNCHANGED <<tts_text, tts_closed, tts_input_ended, tts_text_queue,
                   tts_audio_queue, tts_segment_id, tts_ws, tts_main_task,
                   tts_send_task, tts_send_item, tts_recv_task, tts_cancel,
                   tts_aclose_pc, tts_sock, tts_s2c, tsrv_vars, tts_calls,
                   tts_sentinels, tts_terminals>>
    /\ UNCHANGED <<stt_all_vars, env_vars>>

\* "except asyncio.CancelledError: raise"
tts_keepalive_cancelled ==
    /\ "keepalive" \in tts_cancel
    /\ tts_keepalive_task \in {"start", "sleep"}
    /\ tts_keepalive_task' = "cancelled"
    /\ tts_cancel' = tts_cancel \ {"keepalive"}
    /\ UNCHANGED <<tts_text, tts_closed, tts_input_ended, tts_text_queue,
                   tts_audio_queue, tts_segment_id, tts_ws, tts_main_task,
                   tts_send_task, tts_send_item, tts_recv_task, tts_aclose_pc,
                   tts_net_vars, tsrv_vars, tts_hist_vars>>
    /\ UNCHANGED <<stt_all_vars, env_vars>>

(* ------------------------- transport failure --------------------------- *)
\* the connection drops
tts_sock_drop ==
    /\ tts_sock = "up"
    /\ tts_sock' = "closed"
    /\ UNCHANGED <<tts_client_vars, tts_c2s, tts_s2c, tsrv_vars, tts_hist_vars>>
    /\ UNCHANGED <<stt_all_vars, env_vars>>

(* ----------------- TTS server: websocket_synthesize -------------------- *)
IsTerminator(c) == c = "."
IsSpace(c) == c = " "

\* first index >= i of t that is not a terminator (Len(t) + 1 if none)
RECURSIVE SkipTerminators(_, _)
SkipTerminators(t, i) ==
    IF i <= Len(t) /\ IsTerminator(t[i]) THEN SkipTerminators(t, i + 1) ELSE i

\* a split whose delimiter ends with the terminators
SkipSpaces_None(t, i) == i

\* first index >= i of t that is not a whitespace (Len(t) + 1 if none)
RECURSIVE SkipSpaces(_, _)
SkipSpaces(t, i) ==
    IF i <= Len(t) /\ IsSpace(t[i]) THEN SkipSpaces(t, i + 1) ELSE i

\* start of the leftmost match of [.!?]+\s+ in t at or after i, 0 if none
RECURSIVE FindDelimiter(_, _)
FindDelimiter(t, i) ==
    IF i > Len(t) THEN 0
    ELSE IF /\ IsTerminator(t[i])
            /\ SkipTerminators(t, i) <= Len(t)
            /\ IsSpace(t[SkipTerminators(t, i)])
         THEN i
         ELSE FindDelimiter(t, i + 1)

\* split_into_sentences: re.split on ([.!?]+\s+), each piece rejoined with the
\* delimiter that follows it, the remainder last
RECURSIVE split_into_sentences(_)
split_into_sentences(t) ==
    LET k == FindDelimiter(t, 1) IN
    IF k = 0 THEN <<t>>
    ELSE LET e == SkipSpaces(t, SkipTerminators(t, k)) IN
         <<SubSeq(t, 1, e - 1)>> \o split_into_sentences(SubSeq(t, e, Len(t)))

\* bool(text.strip())
NonBlank(t) == \E i \in 1..Len(t) : ~IsSpace(t[i])

\* the sentences of a buffer that are synthesized: all but the last, non-blank
RECURSIVE CountNonBlank(_)
CountNonBlank(ss) ==
    IF ss = <<>> THEN 0
    ELSE (IF NonBlank(Head(ss)) THEN 1 ELSE 0) + CountNonBlank(Tail(ss))

AllButLast(ss) == SubSeq(ss, 1, Len(ss) - 1)

\* text.strip()
RECURSIVE LStrip(_)
LStrip(t) == IF t # <<>> /\ IsSpace(Head(t)) THEN LStrip(Tail(t)) ELSE t
RECURSIVE RStrip(_)
RStrip(t) ==
    IF t # <<>> /\ IsSpace(t[Len(t)]) THEN RStrip(SubSeq(t, 1, Len(t) - 1)) ELSE t
Strip(t) == RStrip(LStrip(t))

\* the arguments of the synthesize_chunk calls for a list of sentences:
\* "if sentence.strip(): ... synthesize_chunk(sentence.strip(), ...)"
RECURSIVE Stripped(_)
Stripped(ss) ==
    IF ss = <<>> THEN <<>>
    ELSE (IF NonBlank(Head(ss)) THEN <<Strip(Head(ss))>> ELSE <<>>)
           \o Stripped(Tail(ss))

\* k audio messages, numbered after the chunks produced so far
AudioMsgs(k) == [i \in 1..k |-> TsrvMsg("audio", tsrv_seq + i)]

\* the close frame a handler sends: it reaches a connection that is still up
TsrvCloses(code) == IF tts_sock = "up" THEN code ELSE tsrv_close_code

\* "await websocket.accept()", then "if model is None": error, close, return
tsrv_accept ==
    /\ tsrv_pc = "accept"
    /\ \E loaded \in BOOLEAN :
         IF loaded
         THEN /\ tsrv_pc' = "await_config"
              /\ UNCHANGED <<tts_s2c, tts_sock, tsrv_close_code>>
         ELSE /\ tts_s2c' = IF tts_sock = "up"
                            THEN Append(tts_s2c, TsrvMsg("error", 0)) ELSE tts_s2c
              /\ tsrv_pc' = "done"
              /\ tts_sock' = "closed"
              /\ tsrv_close_code' = TsrvCloses(NormalClosure)
    /\ UNCHANGED <<tts_client_vars, tts_c2s, tsrv_buffer, tsrv_seq, tsrv_msg_type, tsrv_synth, tsrv_received,
                   tts_hist_vars>>
    /\ UNCHANGED <<stt_all_vars, env_vars>>

\* the first message is usable as a config: a text frame that is JSON
TtsConfigOk(m) == m.type \notin {"bytes", Malformed}

\* "config_msg = await websocket.receive_text()", then the "ready" reply; any
\* exception goes to the outer except (logged) and finally (close(code=1000))
tsrv_config ==
    /\ tsrv_pc = "await_config"
    /\ tts_c2s # <<>>
    /\ tts_c2s' = Tail(tts_c2s)
    /\ IF TtsConfigOk(Head(tts_c2s)) /\ tts_sock = "up"
       THEN /\ tts_s2c' = Append(tts_s2c, TsrvMsg("ready", 0))
            /\ tsrv_pc' = "loop"
            /\ UNCHANGED <<tts_sock, tsrv_close_code>>
       ELSE /\ tsrv_pc' = "done"
            /\ tts_sock' = "closed"
            /\ tsrv_close_code' = TsrvCloses(NormalClosure)
            /\ UNCHANGED tts_s2c
    /\ tsrv_buffer' = <<>>
    /\ UNCHANGED <<tts_client_vars, tsrv_seq, tsrv_msg_type, tsrv_synth, tsrv_received, tts_hist_vars>>
    /\ UNCHANGED <<stt_all_vars, env_vars>>

\* end_of_stream: synthesize what is left, send "complete", break, close
TsrvOnEndOfStream ==
    \E ok \in (IF NonBlank(tsrv_buffer) THEN 0..1 ELSE {0}) :
      /\ infer_raised' = IF NonBlank(tsrv_buffer) THEN ok = 0 ELSE infer_raised
      /\ tsrv_synth' = tsrv_synth \o Stripped(<<tsrv_buffer>>)
      /\ UNCHANGED tsrv_received
      /\ IF tts_sock = "up"
         THEN /\ tts_s2c' = tts_s2c \o AudioMsgs(ok) \o <<TsrvMsg("complete", 0)>>
              /\ tsrv_seq' = tsrv_seq + ok
              /\ tsrv_pc' = "done"
              /\ tts_sock' = "closed"
              /\ tsrv_close_code' = NormalClosure
              /\ UNCHANGED tsrv_buffer
         ELSE \* send_json raises; except Exception: the loop goes on
              UNCHANGED <<tts_s2c, tsrv_seq, tsrv_pc, tts_sock, tsrv_buffer,
                          tsrv_close_code>>

\* a text fragment: buffer it, synthesize the complete sentences (each call
\* returns audio or, on an exception inside synthesize_chunk, None), keep the rest
TsrvOnText(text) ==
    LET buf == tsrv_buffer \o text
        sentences == split_into_sentences(buf)
        n == CountNonBlank(AllButLast(sentences))
    IN /\ tsrv_received' = tsrv_received \o text
       /\ \E ok \in 0..n :
            IF tts_sock = "up" \/ ok = 0
            THEN /\ tts_s2c' = tts_s2c \o AudioMsgs(ok)
                 /\ tsrv_seq' = tsrv_seq + ok
                 /\ tsrv_buffer' = sentences[Len(sentences)]
                 /\ infer_raised' = IF n > 0 THEN ok < n ELSE infer_raised
                 /\ tsrv_synth' = tsrv_synth \o Stripped(AllButLast(sentences))
                 /\ UNCHANGED <<tsrv_pc, tts_sock, tsrv_close_code>>
            ELSE \* the call number ok is the first to return audio: send_json
                 \* raises on it, before the buffer is cut
                 /\ tsrv_buffer' = buf
                 /\ infer_raised' = (ok > 1)
                 /\ tsrv_synth' = tsrv_synth
                      \o SubSeq(Stripped(AllButLast(sentences)), 1, ok)
                 /\ UNCHANGED <<tts_s2c, tsrv_seq, tsrv_pc, tts_sock,
                                tsrv_close_code>>

\* keepalive: "continue"
TsrvOnKeepalive ==
    UNCHANGED <<tts_s2c, tsrv_seq, tsrv_pc, tts_sock, tsrv_buffer, tsrv_close_code,
                infer_raised, tsrv_synth, tsrv_received>>

\* "message = await websocket.receive()" returns a message
tsrv_message ==
    /\ tsrv_pc = "loop"
    /\ tts_c2s # <<>>
    /\ tts_c2s' = Tail(tts_c2s)
    /\ LET m == Head(tts_c2s) IN
       CASE m.type = "keepalive" -> TsrvOnKeepalive
         [] m.type = "end_of_stream" -> TsrvOnEndOfStream
         [] m.type = "text" -> TsrvOnText(m.text)
         [] OTHER -> \* unknown type, a frame that is not JSON, a binary frame
              UNCHANGED <<tts_s2c, tsrv_seq, tsrv_pc, tts_sock, tsrv_buffer,
                          tsrv_close_code, infer_raised, tsrv_synth,
                          tsrv_received>>
    /\ tsrv_msg_type' = IF Head(tts_c2s).type \notin {"bytes", Malformed}
                        THEN Head(tts_c2s).type ELSE tsrv_msg_type
    /\ UNCHANGED <<tts_client_vars, tts_hist_vars>>
    /\ UNCHANGED <<stt_all_vars, stream_kind, srv_impl, split_vars, env_msgs>>

\* the server sees the disconnect: as in the STT handler
tsrv_disconnect ==
    /\ tsrv_pc \in {"await_config", "loop"}
    /\ tts_c2s = <<>>
    /\ tts_sock = "closed"
    /\ tsrv_pc' = IF tsrv_pc = "loop" THEN "disconnected" ELSE "done"
    /\ UNCHANGED <<tts_client_vars, tts_net_vars, tsrv_buffer, tsrv_seq,
                   tsrv_close_code, tsrv_msg_type, tsrv_synth, tsrv_received, tts_hist_vars>>
    /\ UNCHANGED <<stt_all_vars, env_vars>>

\* receive() after the disconnect message raises RuntimeError: except
\* Exception, the "error" cannot be sent, and the loop goes on
tsrv_receive_raises ==
    /\ tsrv_pc = "disconnected"
    /\ UNCHANGED vars

(* --------------------------- specifications ---------------------------- *)
NextTTS ==
    \/ tts_anext
    \/ tts_aclose
    \/ tts_aclose_finish
    \/ tts_run_connect
    \/ tts_run_ready
    \/ tts_run_gather
    \/ tts_run_cancelled
    \/ tts_send_start
    \/ tts_send_write
    \/ tts_send_cancelled
    \/ tts_recv_start
    \/ tts_recv_message
    \/ tts_recv_closed
    \/ tts_recv_cancelled
    \/ tts_keepalive_start
    \/ tts_keepalive_tick
    \/ tts_keepalive_cancelled
    \/ tts_sock_drop
    \/ tsrv_accept
    \/ tsrv_config
    \/ tsrv_message
    \/ tsrv_disconnect

(* ------------------- a foreign peer on the connection ------------------ *)
\* the frames a server may put on an STT connection: the protocol's control
\* and result messages, and a frame that is not JSON
SttPeerTypes ==
    {"ready", "final", "session_ended", "error", "unknown", Malformed}

\* the texts a "final" message may carry: empty, or a fresh transcript
SttPeerTexts(t) == IF t = "final" THEN {0, env_msgs + 1} ELSE {0}

\* an arbitrary server writes one frame to the STT client
peer_send ==
    /\ sock = "up"
    /\ env_msgs < MaxPeerMsgs
    /\ env_msgs' = env_msgs + 1
    /\ \E t \in SttPeerTypes : \E n \in SttPeerTexts(t) :
         s2c' = Append(s2c, SrvMsg(t, n))
    /\ UNCHANGED <<stt_vars, sock, c2s, srv_vars, hist_vars, tts_vars, stream_kind, srv_impl, split_vars,
                   infer_raised>>

\* the frames a server may put on a TTS connection
TtsPeerTypes == {"ready", "audio", "complete", "error", "unknown", Malformed}

\* an arbitrary server writes one frame to the TTS client
tts_peer_send ==
    /\ tts_sock = "up"
    /\ env_msgs < MaxPeerMsgs
    /\ env_msgs' = env_msgs + 1
    /\ \E t \in TtsPeerTypes : tts_s2c' = Append(tts_s2c, TsrvMsg(t, env_msgs + 1))
    /\ UNCHANGED <<tts_client_vars, tts_sock, tts_c2s, tsrv_vars, tts_hist_vars,
                   stt_all_vars, stream_kind, srv_impl, split_vars, infer_raised>>

\* the text of a TTS session run against a foreign peer
PeerTexts == {<<"a">>}

\* one stream, STT or TTS, has been created
InitClients ==
    /\ SttStart
    /\ env_msgs = 0
    /\ infer_raised = FALSE
    /\ srv_impl = "reference"
    /\ SplitStart(<<>>)
    /\ \/ stream_kind = "stt" /\ TtsStart(<<>>)
       \/ stream_kind = "tts" /\ \E text \in PeerTexts : TtsStart(text)

\* either client against an arbitrary server; the caller of the STT stream
\* pushes no audio, so its send loop only ever dequeues sentinels
NextClients ==
    \/ end_input
    \/ aclose
    \/ anext
    \/ run_connect
    \/ run_ready
    \/ run_gather
    \/ send_start
    \/ send_get
    \/ send_cancelled
    \/ recv_start
    \/ recv_message
    \/ recv_closed
    \/ recv_cancelled
    \/ sock_drop
    \/ peer_send
    \/ tts_anext
    \/ tts_aclose
    \/ tts_aclose_finish
    \/ tts_run_connect
    \/ tts_run_ready
    \/ tts_run_gather
    \/ tts_run_cancelled
    \/ tts_send_start
    \/ tts_send_write
    \/ tts_send_cancelled
    \/ tts_recv_start
    \/ tts_recv_message
    \/ tts_recv_closed
    \/ tts_recv_cancelled
    \/ tts_keepalive_start
    \/ tts_keepalive_tick
    \/ tts_keepalive_cancelled
    \/ tts_sock_drop
    \/ tts_peer_send

(* ------------------ a foreign client on the connection ----------------- *)

\* The session handlers serve any websocket client.  Here one client opens
\* one connection, to the STT endpoint or to the TTS endpoint, and sends any
\* frames in any order; nobody reads what the handler sends, so s2c and
\* tts_s2c hold everything the handler has sent on the connection.

\* the frames a client can send to /ws/transcribe
SttCliMsgs ==
    {TextMsg(t) : t \in {"config", "keepalive", "end_of_stream", "unknown",
                         Malformed}}
      \cup {BytesMsg(env_msgs + 1)}

\* a client connects to /ws/transcribe: the handler starts
cli_connect ==
    /\ stream_kind = "none"
    /\ sock = "none"
    /\ tts_sock = "none"
    /\ sock' = "up"
    /\ srv_pc' = "accept"
    /\ UNCHANGED <<stt_vars, c2s, s2c, srv_buffer, srv_seq, srv_close_code,
                   srv_msg_type, srv_sample_rate, srv_task, hist_vars, tts_vars, env_vars>>

cli_send ==
    /\ stream_kind = "none"
    /\ sock = "up"
    /\ env_msgs < MaxCliMsgs
    /\ env_msgs' = env_msgs + 1
    /\ \E m \in SttCliMsgs : c2s' = Append(c2s, m)
    /\ UNCHANGED <<stt_vars, sock, s2c, srv_vars, hist_vars, tts_vars,
                   stream_kind, srv_impl, split_vars, infer_raised>>

\* the text fragments a client sends to /ws/synthesize
CliTexts == {<<"a">>, <<".", " ">>}

\* the frames a client can send to /ws/synthesize
TtsCliMsgs ==
    {TtsMsg(t, <<>>) : t \in {"config", "keepalive", "end_of_stream", "unknown",
                              "bytes", Malformed}}
      \cup {TtsMsg("text", x) : x \in CliTexts}

\* a client connects to /ws/synthesize: the handler starts
tts_cli_connect ==
    /\ stream_kind = "none"
    /\ sock = "none"
    /\ tts_sock = "none"
    /\ tts_sock' = "up"
    /\ tsrv_pc' = "accept"
    /\ UNCHANGED <<tts_client_vars, tts_c2s, tts_s2c, tsrv_buffer, tsrv_seq,
                   tsrv_close_code, tsrv_msg_type, tsrv_synth, tsrv_received, tts_hist_vars, stt_all_vars,
                   env_vars>>

tts_cli_send ==
    /\ stream_kind = "none"
    /\ tts_sock = "up"
    /\ env_msgs < MaxCliMsgs
    /\ env_msgs' = env_msgs + 1
    /\ \E m \in TtsCliMsgs : tts_c2s' = Append(tts_c2s, m)
    /\ UNCHANGED <<tts_client_vars, tts_sock, tts_s2c, tsrv_vars, tts_hist_vars,
                   stt_all_vars, stream_kind, srv_impl, split_vars, infer_raised>>

InitServers == SttStart /\ TtsStart(<<>>) /\ EnvStart("none")

NextServers ==
    \/ cli_connect
    \/ cli_send
    \/ sock_drop
    \/ srv_accept
    \/ srv_config
    \/ srv_message
    \/ srv_disconnect
    \/ srv_receive_raises
    \/ tts_cli_connect
    \/ tts_cli_send
    \/ tts_sock_drop
    \/ tsrv_accept
    \/ tsrv_config
    \/ tsrv_message
    \/ tsrv_disconnect
    \/ tsrv_receive_raises

SpecSTT == InitSTT /\ [][NextSTT]_vars

SpecServers == InitServers /\ [][NextServers]_vars

\* the frames a client can send to /ws/transcribe, with a binary frame whose
\* payload is the JSON text of a control message
SttFrames ==
    SttCliMsgs \cup {[kind |-> "bytes", type |-> "end_of_stream", n |-> env_msgs + 1,
                   size |-> FrameBytes]}

cli_send_frame ==
    /\ stream_kind = "none"
    /\ sock = "up"
    /\ env_msgs < MaxCliMsgs
    /\ env_msgs' = env_msgs + 1
    /\ \E m \in SttFrames : c2s' = Append(c2s, m)
    /\ UNCHANGED <<stt_vars, sock, s2c, srv_vars, hist_vars, tts_vars,
                   stream_kind, srv_impl, split_vars, infer_raised>>

\* either STT server of the repository, serving one foreign client
InitSttServers ==
    /\ SttStart /\ TtsStart(<<>>)
    /\ stream_kind = "none" /\ env_msgs = 0 /\ infer_raised = FALSE
    /\ srv_impl \in SttImpls
    /\ SplitStart(<<>>)

NextSttServers ==
    \/ cli_connect
    \/ cli_send_frame
    \/ sock_drop
    \/ srv_accept
    \/ srv_config
    \/ srv_impl = "reference" /\ srv_message
    \/ orig_srv_message
    \/ srv_disconnect

SpecSttServers == InitSttServers /\ [][NextSttServers]_vars

(* ------------- one STT session, configs and frames of any kind --------- *)
\* a config with the keys the handler reads
ConfigMsg(rate, task) ==
    [kind |-> "text", type |-> "config", n |-> 0, sample_rate |-> rate,
     task |-> task]

\* a binary frame of the given number of bytes
AudioMsg(f, size) == [kind |-> "bytes", type |-> "", n |-> f, size |-> size]

\* the frames of a client that chooses its sample rate, its task and the
\* size of every binary frame
SessionFrames ==
    {ConfigMsg(rate, task) : rate \in 1..MaxSampleRate,
                             task \in {"transcribe", "unsupported"}}
      \cup {TextMsg(t) : t \in {"keepalive", "end_of_stream"}}
      \cup {AudioMsg(env_msgs + 1, size) : size \in 1..MaxFrameSize}

session_send ==
    /\ stream_kind = "none"
    /\ sock = "up"
    /\ env_msgs < MaxCliMsgs
    /\ env_msgs' = env_msgs + 1
    /\ \E m \in SessionFrames : c2s' = Append(c2s, m)
    /\ UNCHANGED <<stt_vars, sock, s2c, srv_vars, hist_vars, tts_vars,
                   stream_kind, srv_impl, split_vars, infer_raised>>

NextSession ==
    \/ cli_connect
    \/ session_send
    \/ sock_drop
    \/ srv_accept
    \/ srv_config
    \/ srv_message
    \/ srv_disconnect

SpecSession == InitServers /\ [][NextSession]_vars

(* ---------------- the handlers, with inference as a step --------------- *)
\* In the receive loops above one iteration is one step.  Here the iterations
\* that run inference on a window (STT) or on complete sentences (TTS) take
\* two: the handler reads the frame and enters the call, and the call returns.

\* the next frame completes a window
SrvWindowNext ==
    /\ c2s # <<>> /\ Head(c2s).kind = "bytes"
    /\ srv_buffer + Head(c2s).size >= bytes_per_chunk

\* "audio_buffer.extend(data)", then "model.transcribe(...)" is entered: a
\* plain call inside the handler coroutine
srv_transcribe_start ==
    /\ srv_pc = "loop"
    /\ SrvWindowNext
    /\ c2s' = Tail(c2s)
    /\ srv_buffer' = srv_buffer + Head(c2s).size
    /\ srv_pc' = "transcribe"
    /\ UNCHANGED <<stt_vars, s2c, sock, srv_seq, srv_close_code, srv_msg_type, srv_sample_rate, srv_task,
                   hist_vars>>
    /\ UNCHANGED <<tts_vars, env_vars>>

\* the call returns or raises: results or "error", the buffer is cut in the
\* finally clause, and the loop goes back to receive()
srv_transcribe_done ==
    /\ srv_pc = "transcribe"
    /\ \E out \in TranscribeOutcomes :
         /\ infer_raised' = (out = "raise")
         /\ srv_buffer' = DropWindow(srv_buffer)
         /\ s2c' = IF sock # "up" THEN s2c ELSE s2c \o WindowReply(out)
         /\ srv_seq' = IF out = "seg" /\ sock = "up" THEN srv_seq + 1 ELSE srv_seq
    /\ srv_pc' = "loop"
    /\ UNCHANGED <<stt_vars, c2s, sock, srv_close_code, srv_msg_type, srv_sample_rate, srv_task, hist_vars>>
    /\ UNCHANGED <<tts_vars, stream_kind, srv_impl, split_vars, env_msgs>>

\* the next frame is a text fragment that completes at least one sentence
TsrvSentencesNext ==
    /\ tts_c2s # <<>> /\ Head(tts_c2s).type = "text"
    /\ CountNonBlank(AllButLast(split_into_sentences(
                                   tsrv_buffer \o Head(tts_c2s).text))) > 0

\* "text_buffer += text", then "await synthesize_chunk(...)" is entered: the
\* handler coroutine is suspended until the executor call is over
tsrv_synthesize_start ==
    /\ tsrv_pc = "loop"
    /\ TsrvSentencesNext
    /\ tts_c2s' = Tail(tts_c2s)
    /\ tsrv_buffer' = tsrv_buffer \o Head(tts_c2s).text
    /\ tsrv_pc' = "synthesize"
    /\ tsrv_msg_type' = "text"
    /\ tsrv_received' = tsrv_received \o Head(tts_c2s).text
    /\ UNCHANGED tsrv_synth
    /\ UNCHANGED <<tts_client_vars, tts_sock, tts_s2c, tsrv_seq, tsrv_close_code,
                   tts_hist_vars>>
    /\ UNCHANGED <<stt_all_vars, env_vars>>

\* the calls for the sentences return (audio, or None on an exception), the
\* audio is sent and the rest stays in the buffer
tsrv_synthesize_done ==
    /\ tsrv_pc = "synthesize"
    /\ LET sentences == split_into_sentences(tsrv_buffer)
           n == CountNonBlank(AllButLast(sentences))
       IN \E ok \in 0..n :
            IF tts_sock = "up" \/ ok = 0
            THEN /\ tts_s2c' = tts_s2c \o AudioMsgs(ok)
                 /\ tsrv_seq' = tsrv_seq + ok
                 /\ tsrv_buffer' = sentences[Len(sentences)]
                 /\ infer_raised' = (ok < n)
                 /\ tsrv_synth' = tsrv_synth \o Stripped(AllButLast(sentences))
            ELSE /\ infer_raised' = (ok > 1)
                 /\ tsrv_synth' = tsrv_synth
                      \o SubSeq(Stripped(AllButLast(sentences)), 1, ok)
                 /\ UNCHANGED <<tts_s2c, tsrv_seq, tsrv_buffer>>
    /\ tsrv_pc' = "loop"
    /\ UNCHANGED <<tts_client_vars, tts_sock, tts_c2s, tsrv_close_code,
                   tsrv_msg_type, tsrv_received, tts_hist_vars>>
    /\ UNCHANGED <<stt_all_vars, stream_kind, srv_impl, split_vars, env_msgs>>

NextInference ==
    \/ cli_connect
    \/ cli_send
    \/ sock_drop
    \/ srv_accept
    \/ srv_config
    \/ ~SrvWindowNext /\ srv_message
    \/ srv_transcribe_start
    \/ srv_transcribe_done
    \/ srv_disconnect
    \/ tts_cli_connect
    \/ tts_cli_send
    \/ tts_sock_drop
    \/ tsrv_accept
    \/ tsrv_config
    \/ ~TsrvSentencesNext /\ tsrv_message
    \/ tsrv_synthesize_start
    \/ tsrv_synthesize_done
    \/ tsrv_disconnect

SpecInference == InitServers /\ [][NextInference]_vars

\* one endpoint of a connection against an arbitrary counterpart: a client
\* stream facing a foreign peer, or a session handler facing a foreign client
InitOpen == InitClients \/ InitServers

NextOpen ==
    \/ stream_kind # "none" /\ NextClients
    \/ stream_kind = "none" /\ NextServers

SpecOpen == InitOpen /\ [][NextOpen]_vars

\* the handler step that reads an "end_of_stream" which has arrived
read_end_of_stream ==
    \/ /\ srv_pc = "loop"
       /\ c2s # <<>> /\ Head(c2s) = TextMsg("end_of_stream")
       /\ srv_message
    \/ /\ tsrv_pc = "loop"
       /\ tts_c2s # <<>> /\ Head(tts_c2s).type = "end_of_stream"
       /\ tsrv_message

\* the handler is a coroutine of the server's event loop: its receive()
\* returns a message that has arrived; the client is under no obligation
ServersFairness == WF_vars(read_end_of_stream)

SpecServersLive == SpecServers /\ ServersFairness

\* the handler's receive() completes once the connection is closed and
\* nothing is left to read
HangupFairness == WF_vars(srv_disconnect) /\ WF_vars(tsrv_disconnect)

SpecServersHangup == SpecServers /\ HangupFairness

(* ------------------ split_into_sentences on its own -------------------- *)
\* the strings over the alphabet of at most MaxSplitLen characters
SplitTexts == UNION {[1..n -> Chars] : n \in 0..MaxSplitLen}

InitSplit ==
    /\ SttStart /\ TtsStart(<<>>)
    /\ stream_kind = "none" /\ env_msgs = 0 /\ infer_raised = FALSE
    /\ srv_impl = "reference"
    /\ \E text \in SplitTexts : SplitStart(text)

\* "sentences = split_into_sentences(text_buffer)"
split_call ==
    /\ ~split_done
    /\ split_done' = TRUE
    /\ split_result' = split_into_sentences(split_text)
    /\ UNCHANGED <<stt_all_vars, tts_vars, stream_kind, env_msgs, infer_raised,
                   srv_impl, split_text>>

NextSplit == split_call

SpecSplit == InitSplit /\ [][NextSplit]_vars

SpecClients == InitClients /\ [][NextClients]_vars

SpecTTS == InitTTS /\ [][NextTTS]_vars

\* the steps of the tasks a ChunkedStream creates on the event loop
tts_main_step == tts_run_connect \/ tts_run_ready \/ tts_run_gather \/ tts_run_cancelled
tts_send_step == tts_send_start \/ tts_send_write \/ tts_send_cancelled
tts_recv_step ==
    tts_recv_start \/ tts_recv_message \/ tts_recv_closed \/ tts_recv_cancelled
tts_keepalive_step ==
    tts_keepalive_start \/ tts_keepalive_tick \/ tts_keepalive_cancelled

\* the event loop runs every task that is ready; the caller and the server
\* are under no obligation
TtsTasksFairness ==
    /\ WF_vars(tts_main_step)
    /\ WF_vars(tts_send_step)
    /\ WF_vars(tts_recv_step)
    /\ WF_vars(tts_keepalive_step)
    /\ WF_vars(tts_aclose_finish)

SpecTTSLive == SpecTTS /\ TtsTasksFairness

(* ------------------------- properties: TTS ----------------------------- *)
\* C3: over the lifetime of one ChunkedStream, at most one end-of-stream
\* sentinel is enqueued on the outbound text queue, counting the one _run
\* enqueues after the text and the one aclose enqueues.
C3_AtMostOneSentinel == tts_sentinels.run + tts_sentinels.aclose <= 1

(* --------------- properties: clients and a foreign peer ---------------- *)
\* the STT receive loop takes the message at the head of the connection
SttRecvTakes(types) ==
    /\ stt_recv_task = "recv"
    /\ s2c # <<>>
    /\ Head(s2c).type \in types
    /\ s2c' = Tail(s2c)

\* the TTS receive loop takes the message at the head of the connection
TtsRecvTakes(types) ==
    /\ tts_recv_task = "recv"
    /\ tts_s2c # <<>>
    /\ Head(tts_s2c).type \in types
    /\ tts_s2c' = Tail(tts_s2c)

\* C11: when a receive loop reads a terminal message (session_ended or error
\* for STT, complete or error for TTS) it puts the sentinel on the inbound
\* queue and exits; it does not go back to reading the socket.
C11_TerminalEndsRecvLoop ==
    [][ /\ SttRecvTakes({"session_ended", "error"})
           => /\ stt_recv_task' = "done"
              /\ stt_event_queue' = Append(stt_event_queue, NoneVal)
        /\ TtsRecvTakes({"complete", "error"})
           => /\ tts_recv_task' = "done"
              /\ tts_audio_queue' = Append(tts_audio_queue, TtsNone) ]_vars

\* C12: every payload message a receive loop reads (final for STT, audio for
\* TTS) puts exactly one Result at the tail of the inbound queue, which the
\* caller drains from the head, and the session_ended that follows the
\* payload messages puts the sentinel there, ending the iteration.
C12_OneResultPerPayload ==
    [][ /\ SttRecvTakes({"final"})
           => stt_event_queue' = Append(stt_event_queue, Head(s2c).text)
        /\ SttRecvTakes({"session_ended"})
           => stt_event_queue' = Append(stt_event_queue, NoneVal)
        /\ TtsRecvTakes({"audio"})
           => tts_audio_queue' = Append(tts_audio_queue, tts_segment_id)
        /\ TtsRecvTakes({"complete"})
           => tts_audio_queue' = Append(tts_audio_queue, TtsNone) ]_vars

\* an STT session whose socket is gone, with nothing left to notice it and no
\* sentinel ever placed on the inbound queue (no aclose involved)
SttDropUnnoticed ==
    /\ sock = "closed"
    /\ stt_calls.aclose = 0
    /\ stt_run \in {"gather", "done"}
    /\ stt_recv_task \notin {"start", "recv"}
    /\ stt_terminals = 0

\* the same for a TTS session
TtsDropUnnoticed ==
    /\ tts_sock = "closed"
    /\ tts_calls.aclose = 0
    /\ tts_main_task \in {"gather", "done"}
    /\ tts_recv_task \notin {"start", "recv"}
    /\ tts_terminals = 0

\* C13: a transport error ends the caller's iteration: a frame that is not
\* JSON makes the receive loop put the sentinel on the inbound queue, and a
\* session never comes to rest on a dropped socket without a sentinel.
C13_TransportErrorSentinel ==
    [][ /\ SttRecvTakes({Malformed})
           => stt_event_queue' = Append(stt_event_queue, NoneVal)
        /\ TtsRecvTakes({Malformed})
           => tts_audio_queue' = Append(tts_audio_queue, TtsNone)
        /\ ~SttDropUnnoticed'
        /\ ~TtsDropUnnoticed' ]_vars

\* the step creates the send and receive tasks of a session
SttStartsTasks == stt_send_task = "none" /\ stt_send_task' # "none"
TtsStartsTasks == tts_send_task = "none" /\ tts_send_task' # "none"

\* _run is over and never created the tasks: the setup failed
SttSetupFailed == stt_run = "done" /\ stt_send_task = "none"
TtsSetupFailed == tts_main_task = "done" /\ tts_send_task = "none"

\* C14: the first message a client writes is the config; the send and receive
\* tasks are created only by the step that reads "ready" as the first server
\* message; and a session whose setup failed (another first message, or a
\* socket error) has created no task, has written nothing but the config, has
\* one sentinel on its inbound queue and is closed.
C14_StreamOnlyAfterReady ==
    [][ /\ stt_wire' # <<>> => stt_wire'[1] = TextMsg("config")
        /\ tts_wire' # <<>> => tts_wire'[1].type = "config"
        /\ SttStartsTasks
           => /\ stt_run = "ready_wait" /\ stt_wire = <<TextMsg("config")>>
              /\ s2c # <<>> /\ Head(s2c).type = "ready" /\ s2c' = Tail(s2c)
        /\ TtsStartsTasks
           => /\ tts_main_task = "ready_wait" /\ Len(tts_wire) = 1
              /\ tts_s2c # <<>> /\ Head(tts_s2c).type = "ready"
              /\ tts_s2c' = Tail(tts_s2c)
        /\ SttSetupFailed'
           => /\ stt_recv_task' = "none"
              /\ Len(stt_wire') <= 1
              /\ stt_terminals' = 1
              /\ stt_closed'
        /\ TtsSetupFailed'
           => /\ tts_recv_task' = "none" /\ tts_keepalive_task' = "none"
              /\ Len(tts_wire') <= 1
              /\ tts_terminals' = 1
              /\ tts_closed' ]_vars

\* C14 witness: a TTS session whose first server message was not "ready": the
\* message was read, no task exists, only the config is on the wire
C14_Witness ==
    /\ TtsSetupFailed
    /\ env_msgs >= 1 /\ tts_s2c = <<>>
    /\ tts_wire = <<TtsMsg("config", <<>>)>>
    /\ tts_terminals = 1 /\ tts_closed

(* ------------- properties: servers and a foreign client ---------------- *)

\* positions in a log of sent messages of the messages of the given types
Sent(log, types) == {i \in 1..Len(log) : log[i].type \in types}

\* the step sends a "ready" on the STT (resp. TTS) connection
SttSendsReady == Cardinality(Sent(s2c', {"ready"})) > Cardinality(Sent(s2c, {"ready"}))
TtsSendsReady ==
    Cardinality(Sent(tts_s2c', {"ready"})) > Cardinality(Sent(tts_s2c, {"ready"}))

\* C15: a session handler sends "ready" only in the step in which it reads the
\* first message of the connection, a text frame holding JSON, and "ready" is
\* then the first message it has sent; a handler in its receive loop has sent
\* exactly one "ready"; a connection never carries two; every result message
\* (final, audio) and every terminal message (session_ended, complete) comes
\* after the "ready".
C15_ReadyOnceAfterConfig ==
    [][ /\ SttSendsReady
           => /\ srv_pc = "await_config" /\ srv_pc' = "loop"
              /\ c2s # <<>> /\ c2s' = Tail(c2s)
              /\ Head(c2s).kind = "text" /\ Head(c2s).type # Malformed
              /\ s2c = <<>> /\ s2c' = <<SrvMsg("ready", 0)>>
        /\ TtsSendsReady
           => /\ tsrv_pc = "await_config" /\ tsrv_pc' = "loop"
              /\ tts_c2s # <<>> /\ tts_c2s' = Tail(tts_c2s)
              /\ Head(tts_c2s).type \notin {"bytes", Malformed}
              /\ tts_s2c = <<>> /\ tts_s2c' = <<TsrvMsg("ready", 0)>>
        /\ srv_pc' \in {"loop", "disconnected"} => Sent(s2c', {"ready"}) = {1}
        /\ tsrv_pc' \in {"loop", "disconnected"} => Sent(tts_s2c', {"ready"}) = {1}
        /\ Sent(s2c', {"ready"}) \subseteq {1}
        /\ Sent(tts_s2c', {"ready"}) \subseteq {1}
        /\ Sent(s2c', {"final", "session_ended"}) # {} => Sent(s2c', {"ready"}) = {1}
        /\ Sent(tts_s2c', {"audio", "complete"}) # {}
           => Sent(tts_s2c', {"ready"}) = {1} ]_vars

\* C15 witness: an STT connection on which the handler sent "ready" first and
\* then a transcript and the terminal message
C15_Witness ==
    /\ stream_kind = "none"
    /\ Len(s2c) = 3
    /\ s2c[1].type = "ready" /\ s2c[2].type = "final"
    /\ s2c[3].type = "session_ended"

\* the step ends the STT (resp. TTS) handshake in failure on an open socket
SttSetupError == srv_pc \in {"accept", "await_config"} /\ srv_pc' = "done" /\ sock = "up"
TtsSetupError ==
    tsrv_pc \in {"accept", "await_config"} /\ tsrv_pc' = "done" /\ tts_sock = "up"

\* C16: a handshake that fails while the socket is open (model not loaded,
\* first frame missing or not a JSON text frame) sends one "error" message,
\* then closes the socket, and no "ready" is on the connection.
C16_SetupErrorSurfaced ==
    [][ /\ SttSetupError
           => /\ s2c' = Append(s2c, SrvMsg("error", 0))
              /\ sock' = "closed"
              /\ Sent(s2c', {"ready"}) = {}
        /\ TtsSetupError
           => /\ tts_s2c' = Append(tts_s2c, TsrvMsg("error", 0))
              /\ tts_sock' = "closed"
              /\ Sent(tts_s2c', {"ready"}) = {} ]_vars

\* the step in which the STT (resp. TTS) receive loop reads a control message
\* of type t on an open connection
SrvTakes(t) ==
    /\ srv_pc = "loop" /\ sock = "up"
    /\ c2s # <<>> /\ Head(c2s).kind = "text" /\ Head(c2s).type = t
    /\ c2s' = Tail(c2s)
TsrvTakes(t) ==
    /\ tsrv_pc = "loop" /\ tts_sock = "up"
    /\ tts_c2s # <<>> /\ Head(tts_c2s).type = t
    /\ tts_c2s' = Tail(tts_c2s)

\* C17: the step that reads "end_of_stream" sends the results of at most one
\* inference call on what is buffered (none when nothing is buffered), then the
\* terminal message (session_ended, complete), and closes the connection with
\* code 1000; a terminal message is always the last message on its connection.
C17_EndOfStreamFlush ==
    [][ /\ SrvTakes("end_of_stream")
           => /\ \E out \in (IF srv_buffer > 0 THEN {"none", "seg", "empty"}
                                              ELSE {"none"}) :
                   s2c' = s2c \o Finals(out) \o <<SrvMsg("session_ended", 0)>>
              /\ srv_pc' = "done" /\ sock' = "closed"
              /\ srv_close_code' = 1000
        /\ TsrvTakes("end_of_stream")
           => /\ \E k \in (IF NonBlank(tsrv_buffer) THEN 0..1 ELSE {0}) :
                   tts_s2c' = tts_s2c \o AudioMsgs(k) \o <<TsrvMsg("complete", 0)>>
              /\ tsrv_pc' = "done" /\ tts_sock' = "closed"
              /\ tsrv_close_code' = 1000
        /\ Sent(s2c', {"session_ended"}) \subseteq {Len(s2c')}
        /\ Sent(tts_s2c', {"complete"}) \subseteq {Len(tts_s2c')} ]_vars

\* an "end_of_stream" is the next message the STT (resp. TTS) receive loop
\* reads, on an open connection
SttEndOfStreamPending ==
    /\ srv_pc = "loop" /\ sock = "up"
    /\ c2s # <<>> /\ Head(c2s) = TextMsg("end_of_stream")
TtsEndOfStreamPending ==
    /\ tsrv_pc = "loop" /\ tts_sock = "up"
    /\ tts_c2s # <<>> /\ Head(tts_c2s).type = "end_of_stream"

\* the handler has sent its terminal message and closed the connection
SttAnswered == Sent(s2c, {"session_ended"}) # {} /\ srv_close_code = NormalClosure
TtsAnswered == Sent(tts_s2c, {"complete"}) # {} /\ tsrv_close_code = NormalClosure

\* the client closed the connection without a close frame from the handler
SttClientGone == sock = "closed" /\ srv_close_code = 0
TtsClientGone == tts_sock = "closed" /\ tsrv_close_code = 0

\* C18: an "end_of_stream" that a handler in its receive loop is about to
\* read leads to the terminal message and the closure of the connection by the
\* handler, whatever is buffered and whatever the flush inference does, unless
\* the client closes the connection first.
C18_EndOfStreamAnswered ==
    /\ SttEndOfStreamPending ~> (SttAnswered \/ SttClientGone)
    /\ TtsEndOfStreamPending ~> (TtsAnswered \/ TtsClientGone)

\* C19: the step in which a handler in its receive loop reads a "keepalive"
\* leaves the accumulation buffer, the number of inference results, the
\* messages sent, the handler's position and the connection as they were.
C19_KeepaliveNoOp ==
    [][ /\ SrvTakes("keepalive")
           => UNCHANGED <<srv_buffer, srv_seq, infer_raised, s2c, srv_pc, sock,
                          srv_close_code>>
        /\ TsrvTakes("keepalive")
           => UNCHANGED <<tsrv_buffer, tsrv_seq, infer_raised, tts_s2c, tsrv_pc,
                          tts_sock, tsrv_close_code>> ]_vars

\* C19 witness: the STT handler has just read a keepalive with audio in its
\* buffer: the audio is still there, only "ready" was ever sent, the
\* connection is open
C19_Witness ==
    /\ stream_kind = "none"
    /\ srv_pc = "loop" /\ srv_msg_type = "keepalive" /\ c2s = <<>>
    /\ srv_buffer = FrameBytes
    /\ s2c = <<SrvMsg("ready", 0)>>
    /\ sock = "up" /\ srv_close_code = 0

\* the step in which the STT handler reads the audio frame that fills a window,
\* on an open connection
SrvTakesWindow ==
    /\ srv_pc = "loop" /\ sock = "up"
    /\ c2s # <<>> /\ Head(c2s).kind = "bytes"
    /\ srv_buffer + Head(c2s).size >= bytes_per_chunk
    /\ c2s' = Tail(c2s)

\* the step in which the TTS handler reads a text fragment that completes at
\* least one sentence, on an open connection
TsrvTakesSentences ==
    /\ TsrvTakes("text")
    /\ CountNonBlank(AllButLast(
           split_into_sentences(tsrv_buffer \o Head(tts_c2s).text))) > 0

\* C20: a step in which an inference call for a window (STT) or a sentence
\* (TTS) raised sends an "error" message and leaves the handler in its receive
\* loop with the connection open.
C20_InferenceErrorReported ==
    [][ /\ (SrvTakesWindow /\ infer_raised')
           => /\ s2c' = Append(s2c, SrvMsg("error", 0))
              /\ srv_pc' = "loop" /\ sock' = "up" /\ srv_close_code' = 0
        /\ (TsrvTakesSentences /\ infer_raised')
           => /\ Sent(tts_s2c', {"error"}) # Sent(tts_s2c, {"error"})
              /\ tsrv_pc' = "loop" /\ tts_sock' = "up"
              /\ tsrv_close_code' = 0 ]_vars

(* ---------------- properties: errors, lifecycle, framing --------------- *)

\* C21: the step in which a client receive loop reads an "error" message
\* leaves the loop receiving and puts no end-of-stream sentinel on the result
\* queue, so the results that follow the "error" are still read and queued.
C21_ErrorNotFatal ==
    [][ /\ SttRecvTakes({"error"})
           => stt_recv_task' = "recv" /\ stt_event_queue' = stt_event_queue
        /\ TtsRecvTakes({"error"})
           => tts_recv_task' = "recv" /\ tts_audio_queue' = tts_audio_queue ]_vars

TtsWritesKeepalive ==
    TtsCount(tts_wire', "keepalive") > TtsCount(tts_wire, "keepalive")

\* C23: a "keepalive" is written only while the TTS session is not closed and
\* its input has not ended: the _input_ended flag is not set and no
\* end-of-stream sentinel has been put on the session's text queue.
C23_KeepaliveOnlyBeforeInputEnd ==
    [][ TtsWritesKeepalive
          => /\ ~tts_closed
             /\ ~tts_input_ended
             /\ tts_sentinels.run + tts_sentinels.aclose = 0 ]_vars

\* the step in which aclose closes the socket of the STT (resp. TTS) session
SttAcloseCloses ==
    /\ stt_calls'.aclose = stt_calls.aclose + 1
    /\ sock = "up" /\ sock' = "closed"
TtsAcloseCloses ==
    /\ tts_calls'.aclose = tts_calls.aclose + 1 \/ tts_aclose_pc = "wait"
    /\ tts_aclose_pc' = "idle"
    /\ tts_sock = "up" /\ tts_sock' = "closed"

\* no task of the session is left running or waiting for its cancellation
SttTasksOver ==
    /\ stt_cancel = {}
    /\ stt_send_task \in {"none", "done", "cancelled"}
    /\ stt_recv_task \in {"none", "done", "cancelled"}
TtsTasksOver ==
    /\ tts_cancel = {}
    /\ tts_main_task \in {"none", "done", "cancelled"}
    /\ tts_send_task \in {"none", "done", "cancelled"}
    /\ tts_recv_task \in {"none", "done", "cancelled"}
    /\ tts_keepalive_task \in {"none", "done", "cancelled"}

\* C24: when aclose closes the socket every task of the session is over (the
\* tasks it cancelled have finished), and no frame is written to a connection
\* that has been closed.
C24_CancelAwaitedBeforeClose ==
    [][ /\ SttAcloseCloses => SttTasksOver'
        /\ TtsAcloseCloses => TtsTasksOver'
        /\ stt_wire' # stt_wire => sock # "closed"
        /\ tts_wire' # tts_wire => tts_sock # "closed" ]_vars

\* C25: an aclose call that follows an earlier aclose call on the same session
\* changes nothing: no sentinel is enqueued, no task is cancelled, no flag,
\* queue, task or connection changes, and the call returns normally.
C25_SecondAcloseNoOp ==
    [][ /\ (stt_calls'.aclose = stt_calls.aclose + 1 /\ stt_calls.aclose >= 1)
           => UNCHANGED <<stt_vars, net_vars, stt_sentinels, stt_wire,
                          stt_terminals>>
        /\ (tts_calls'.aclose = tts_calls.aclose + 1 /\ tts_calls.aclose >= 1)
           => UNCHANGED <<tts_client_vars, tts_net_vars, tts_sentinels, tts_wire,
                          tts_terminals>> ]_vars

\* C25 witness: an STT session on which aclose was called twice after the
\* handshake: one sentinel from aclose, the session closed
C25_Witness ==
    /\ stream_kind = "stt"
    /\ stt_calls.aclose = 2
    /\ stt_sentinels.aclose = 1
    /\ stt_closed /\ stt_send_task # "none"

\* number of end-of-stream sentinels in a result queue
Sentinels(q, none) == Cardinality({i \in 1..Len(q) : q[i] = none})

\* a pull has consumed a sentinel, i.e. raised StopAsyncIteration
SttStopRaised == stt_terminals > Sentinels(stt_event_queue, NoneVal)
TtsStopRaised == tts_terminals > Sentinels(tts_audio_queue, TtsNone)

\* C26: once a pull has raised stop-iteration, the next pull raises it again:
\* the item at the head of the result queue, if any, is a sentinel, and once
\* every task of the session is over (nothing will be queued any more) the
\* queue is not empty, so that the pull does not block for ever.
C26_StopIsFinal ==
    /\ SttStopRaised
       => /\ stt_event_queue # <<>> => Head(stt_event_queue) = NoneVal
          /\ (SttTasksOver /\ stt_run = "done") => stt_event_queue # <<>>
    /\ TtsStopRaised
       => /\ tts_audio_queue # <<>> => Head(tts_audio_queue) = TtsNone
          /\ TtsTasksOver => tts_audio_queue # <<>>

TtsCompleteArrived ==
    /\ stream_kind = "tts"
    /\ tts_recv_task = "recv"
    /\ tts_s2c # <<>> /\ Head(tts_s2c).type = "complete"

\* the session is CLOSED: every task is over, _closed is set and the socket
\* is closed
TtsSessionClosed == tts_closed /\ tts_sock = "closed" /\ TtsTasksOver

\* C28: once "complete" has arrived at the receive loop, the send, receive
\* and keepalive tasks all exit, _closed becomes true and the socket is
\* closed, whether or not the caller calls aclose.
C28_ClosedAfterComplete == TtsCompleteArrived ~> TtsSessionClosed

\* the STT handler reads a frame of the given kind in its receive loop
SrvReads(kind) ==
    /\ srv_pc = "loop"
    /\ c2s # <<>> /\ Head(c2s).kind = kind
    /\ c2s' = Tail(c2s)

\* the step sends an "error" on the STT connection
SttSendsError == Cardinality(Sent(s2c', {"error"})) > Cardinality(Sent(s2c, {"error"}))

\* C29: in either STT server, after the handshake, a text frame "keepalive"
\* or "end_of_stream" is read as a control message of that type, leaves the
\* audio buffer as it was and is answered with "error" only when the flush it
\* asks for raised; a binary frame is appended to the audio buffer whatever
\* its payload.
C29_AnyFrameKindAccepted ==
    [][ /\ (SrvReads("text") /\ Head(c2s).type \in {"keepalive", "end_of_stream"})
           => /\ srv_msg_type' = Head(c2s).type
              /\ srv_buffer' = srv_buffer
              /\ SttSendsError
                 => /\ Head(c2s).type = "end_of_stream"
                    /\ srv_buffer > 0 /\ infer_raised'
        /\ SrvReads("bytes")
           => /\ srv_buffer' \in {srv_buffer + Head(c2s).size,
                                 DropWindow(srv_buffer + Head(c2s).size)}
              /\ srv_msg_type' = srv_msg_type ]_vars

\* a handler step that takes the frame at the head of the STT (resp. TTS)
\* connection
SttHandlerReads == NextInference /\ c2s' = Tail(c2s)
TtsHandlerReads == NextInference /\ tts_c2s' = Tail(tts_c2s)

\* a "keepalive" or "end_of_stream" has arrived while inference runs
SttControlDuringInference ==
    /\ srv_pc = "transcribe"
    /\ c2s # <<>> /\ Head(c2s).kind = "text"
    /\ Head(c2s).type \in {"keepalive", "end_of_stream"}
TtsControlDuringInference ==
    /\ tsrv_pc = "synthesize"
    /\ tts_c2s # <<>> /\ Head(tts_c2s).type \in {"keepalive", "end_of_stream"}

\* C30: while an inference call of a session is running, the session's
\* handler can take a "keepalive" or "end_of_stream" that has arrived, in the
\* STT server and in the TTS server.
C30_InferenceDoesNotBlockReceive ==
    /\ SttControlDuringInference => ENABLED SttHandlerReads
    /\ TtsControlDuringInference => ENABLED TtsHandlerReads

\* C31: a session of the STT server whose config asked for an unsupported
\* task is answered with an "error" message: by the time the handler has
\* ended the session with "session_ended", it has sent an "error".
C31_UnsupportedTaskError ==
    (srv_task = "unsupported" /\ Sent(s2c, {"session_ended"}) # {})
        => Sent(s2c, {"error"}) # {}

\* C32: the accumulation buffer of the STT server is bounded: whenever the
\* handler is back at the head of its receive loop, the buffer holds less
\* than one full window of bytes_per_chunk bytes.
C32_BufferBelowWindow == srv_pc = "loop" => srv_buffer < bytes_per_chunk

\* the STT handler reads a binary frame that fills a window
SrvReadsWindow ==
    /\ SrvReads("bytes")
    /\ srv_buffer + Head(c2s).size >= bytes_per_chunk

\* C33: when a binary frame brings the buffer to bytes_per_chunk bytes or
\* more, the replies are those of one inference call and the buffer loses
\* exactly bytes_per_chunk - overlap_bytes bytes from its front, also when
\* the call raised.
C33_WindowStride ==
    [][ SrvReadsWindow
          => /\ srv_buffer' = srv_buffer + Head(c2s).size
                                 - (bytes_per_chunk - overlap_bytes)
             /\ srv_buffer' >= overlap_bytes
             /\ \E out \in Outcomes :
                  /\ s2c' \in {s2c, s2c \o WindowReply(out)}
                  /\ infer_raised' = (out = "raise") ]_vars

\* C33 witness: a window whose inference call raised has been cut from the
\* buffer (sample rate 2: two frames of 5 bytes leave 4)
C33_Witness ==
    /\ srv_pc = "loop" /\ srv_msg_type = "" /\ c2s = <<>>
    /\ srv_sample_rate = 2 /\ srv_buffer = 4
    /\ infer_raised /\ Sent(s2c, {"error"}) # {}

\* the strings of a list joined in order
RECURSIVE Concat(_)
Concat(ss) == IF ss = <<>> THEN <<>> ELSE Head(ss) \o Concat(Tail(ss))

\* a text without its whitespace
NonSpaces(t) == SelectSeq(t, LAMBDA c : ~IsSpace(c))

\* the TTS handler reads a text fragment in its receive loop
TsrvReadsText ==
    /\ tsrv_pc = "loop"
    /\ tts_c2s # <<>> /\ Head(tts_c2s).type = "text"
    /\ tts_c2s' = Tail(tts_c2s)

\* C34: a text fragment makes the TTS handler pass only complete sentences
\* (each ends with a terminator) to inference; the texts passed to inference,
\* joined in order, are at every moment a prefix of the received fragments,
\* whitespace apart, and the whole of them once "complete" has been sent.
C34_TextPassedOnceInOrder ==
    [][ /\ TsrvReadsText
           => \A i \in (Len(tsrv_synth) + 1)..Len(tsrv_synth') :
                 IsTerminator(tsrv_synth'[i][Len(tsrv_synth'[i])])
        /\ IsPrefix(NonSpaces(Concat(tsrv_synth')), NonSpaces(tsrv_received'))
        /\ Sent(tts_s2c', {"complete"}) # {}
           => NonSpaces(Concat(tsrv_synth')) = NonSpaces(tsrv_received') ]_vars

\* the client's socket is closed, the handler has sent no close frame and is
\* in its receive loop with nothing left to read
SttHangup ==
    /\ stream_kind = "none"
    /\ srv_pc = "loop" /\ sock = "closed" /\ c2s = <<>> /\ srv_close_code = 0
TtsHangup ==
    /\ stream_kind = "none"
    /\ tsrv_pc = "loop" /\ tts_sock = "closed" /\ tts_c2s = <<>>
    /\ tsrv_close_code = 0

\* C35: when the client's socket closes without an "end_of_stream", the
\* session handler eventually leaves its receive loop and is over, in the STT
\* server and in the TTS server.
C35_HangupEndsHandler ==
    /\ SttHangup ~> srv_pc = "done"
    /\ TtsHangup ~> tsrv_pc = "done"

\* C36: the STT server never truncates a malformed audio buffer: when the
\* bytes it is about to decode are not a multiple of the 2-byte sample width
\* (an odd number of buffered bytes at "end_of_stream"), the decode fails, an
\* "error" message is sent to the client and no result or "session_ended" is;
\* the bytes decoded for a window are always a multiple of 2.
C36_OddBufferIsError ==
    [][ /\ (SrvTakes("end_of_stream") /\ srv_buffer % 2 = 1)
           => /\ s2c' = Append(s2c, SrvMsg("error", 0))
              /\ infer_raised'
              /\ srv_buffer' = srv_buffer /\ srv_seq' = srv_seq
        /\ SrvReadsWindow => bytes_per_chunk % 2 = 0 ]_vars

\* an "end_of_stream" was read with an odd number of bytes buffered, by a
\* session whose task the library knows, and was answered with "error"
C36_Witness ==
    /\ srv_pc = "loop" /\ sock = "up" /\ srv_msg_type = "end_of_stream"
    /\ srv_task = "transcribe" /\ srv_buffer % 2 = 1
    /\ infer_raised /\ s2c # <<>> /\ s2c[Len(s2c)].type = "error"

\* aclose ran on a stream that had not been pulled: the stream is closed and
\* its _run task does not exist, or was created by a later pull and has not
\* connected yet
TtsClosedUnpulled ==
    /\ stream_kind = "tts"
    /\ tts_closed /\ tts_calls.aclose >= 1
    /\ tts_main_task \in {"none", "start"} /\ "main" \notin tts_cancel
    /\ tts_wire = <<>>

\* C37: if aclose is called on a TTS ChunkedStream before its first pull, a
\* later pull on that stream opens no connection and writes nothing (no
\* config, text or control message) to the wire.
C37_NoConnectAfterAclose ==
    [][ TtsClosedUnpulled
        => /\ tts_sock' = "none" /\ ~tts_ws'
           /\ tts_wire' = <<>> /\ tts_c2s' = <<>> ]_vars

\* C38: for every interleaving of the receive loop, the _run task and aclose,
\* the inbound queue of a client session (STT _event_queue, TTS _audio_queue)
\* receives at most one terminal sentinel (None), and no Result is enqueued
\* after that sentinel.
C38_OneTerminalSentinel ==
    [][ /\ stt_terminals' <= 1
        /\ tts_terminals' <= 1
        /\ stt_terminals >= 1 => Len(stt_event_queue') <= Len(stt_event_queue)
        /\ tts_terminals >= 1 => Len(tts_audio_queue') <= Len(tts_audio_queue) ]_vars

\* aclose cancelled the STT receive loop after a result had been enqueued:
\* the queue holds the result, then the one sentinel, and _run is over
C38_Witness ==
    /\ stt_calls.aclose >= 1 /\ stt_recv_task = "cancelled" /\ stt_run = "done"
    /\ stt_terminals = 1
    /\ Len(stt_event_queue) >= 2
    /\ stt_event_queue[Len(stt_event_queue)] = NoneVal
    /\ Sentinels(stt_event_queue, NoneVal) = 1

\* s ends with one or more terminators followed by one or more whitespaces
EndsWithDelimiter(s) ==
    \E i, j \in 1..Len(s) :
        /\ i < j
        /\ \A k \in i..(j - 1) : IsTerminator(s[k])
        /\ \A k \in j..Len(s) : IsSpace(s[k])

\* C39: for every input string, split_into_sentences returns a non-empty
\* list whose in-order concatenation equals the input, and every element
\* except the last ends with one or more terminators followed by whitespace.
C39_SplitPartitionsInput ==
    split_done
    => /\ Len(split_result) >= 1
       /\ Concat(split_result) = split_text
       /\ \A i \in 1..(Len(split_result) - 1) : EndsWithDelimiter(split_result[i])

\* a text of three pieces: two sentences and a remainder that is not empty
C39_Witness ==
    /\ split_done /\ Len(split_result) = 3
    /\ split_result[3] # <<>>

\* C40: for every positive integer sample_rate given in the config, each
\* window the STT server decodes starts on a 2-byte sample boundary of the
\* received byte stream: the number of bytes dropped from the buffer per
\* window (bytes_per_chunk - overlap_bytes) is even.
C40_WindowStrideEven ==
    [][ SrvReadsWindow
        => /\ (bytes_per_chunk - overlap_bytes) % 2 = 0
           /\ (srv_buffer + Head(c2s).size - srv_buffer') % 2 = 0 ]_vars

====
